---------------------------- MODULE Spec2Model ----------------------------
(***************************************************************************)
(* myfeed: the two-tier cache store (cache/cache.go, schema.sql), the      *)
(* payload serialization (cache/serialization.go), the retry wrapper       *)
(* (agent/agent.go), the agent factory (agent/factory.go) and the          *)
(* orchestrating loop of main().                                           *)
(*                                                                         *)
(* The specifications share the variables:                                 *)
(*   SpecCache    a client calling the exported methods of *Cache          *)
(*   SpecStore    the same with failing statements and a running clock     *)
(*   Spec         runs of main() over a persistent cache                   *)
(*   SpecFaults   runs of main() over a cache whose statements may fail    *)
(*   SpecBatch    runs of main() over several resources                    *)
(*   SpecStartup  runs of main() that fail at startup or clear the cache   *)
(*   SpecFiltered runs of main() over resources with filters               *)
(*   SpecConcurrent  two callers of one cache, a Get statement by statement *)
(*   SpecRetry    one call of retryAgent.Process over a failing agent      *)
(*   SpecRetryLive  the same with fair scheduling of the call's statements *)
(*   SpecReuse    further and concurrent calls on one retryAgent           *)
(*   SpecBackoff, SpecWide, SpecSerial, SpecFilter  calls of the pure      *)
(*                functions                                                *)
(***************************************************************************)
EXTENDS Integers, Sequences, FiniteSets, Bags, TLC

VARIABLES
    parser_cache,   \* table parser_cache: a bag of rows
    agent_cache,    \* table agent_cache: a bag of rows
    clock,          \* time.Now().Unix()
    ret,            \* SpecCache: the last call of a *Cache method and what it returned
    lastParserSet,  \* SpecCache history: key -> payload of the last SetParserOutput since Clear
    lastAgentSet,   \* SpecCache history: key -> text and pipeline of the last SetAgentOutput since Clear
    nwrites,        \* SpecCache: number of Set/Clear calls made so far
    pc,             \* main: where the process is ("idle": not running)
    conf,           \* main: conf.Resources of the running process
    agents,         \* main: the names in the agents map
    feeds,          \* main: feeds[i], NoFeed for nil
    iRes,           \* main: i, the index of the resource / feed of the current loop
    jItem,          \* main: index of the current item in feeds[i].Items
    content,        \* main: var content string
    agentIdx,       \* main: position in resource.Agents of the next agent to run
    errs,           \* main: var errs []error
    pages,          \* main: resourceMap, pages[i] = resourceMap[i].Pages
    ctxDone,        \* main: ctx.Done() is closed (SIGINT / SIGTERM received)
    runs,           \* main: number of processes started so far
    ev,             \* main: the last step taken and what it observed
    did,            \* main: what has been done for the current item
    parsedKeys,     \* main history: (link, kind) Parse was invoked on since Clear
    storedKeys,     \* main history: (link, kind) whose parse result was stored since Clear
    storedAgentKeys, \* main history: (link, kind, agents) whose text was stored since Clear
    rpc,            \* retryAgent.Process: where the call is ("idle": never called)
    rcfg,           \* retryAgent: r.config
    script,         \* retryAgent: what r.underlying returns, call after call
    elapsed,        \* retryAgent.Process: time since the call began
    deadline,       \* retryAgent.Process: when ctx's overall timeout expires
    cancelled,      \* retryAgent.Process: the caller's ctx is cancelled
    attempt,        \* retryAgent.Process: attempt
    calls,          \* retryAgent.Process history: calls of r.underlying.Process made
    sleeps,         \* retryAgent.Process history: backoff sleeps completed
    sleepDuration,  \* retryAgent.Process: sleepDuration
    lastErr,        \* retryAgent.Process: lastErr
    result,         \* retryAgent.Process: what it returned
    probe,          \* SpecBackoff: the last call of isRetryable, extractRetryDelay or the
                    \* backoff computation, and what it gave
    getting,        \* SpecConcurrent: the GetParserOutput of a second caller, statement
                    \* by statement
    other,          \* SpecReuse: the locals of a second, concurrent call of Process on
                    \* the same retryAgent
    earlier         \* SpecReuse history: how the last call that returned had ended

cacheVars == <<parser_cache, agent_cache, clock>>
clientVars == <<ret, lastParserSet, lastAgentSet, nwrites>>
mainVars == <<pc, conf, agents, feeds, iRes, jItem, content, agentIdx, errs, pages, ctxDone, runs, ev,
              did, parsedKeys, storedKeys, storedAgentKeys>>
retryVars == <<rpc, rcfg, script, elapsed, deadline, cancelled, attempt, calls, sleeps,
               sleepDuration, lastErr, result>>
probeVars == <<probe>>
callerVars == <<getting, other, earlier>>

----------------------------------------------------------------------------
(* Bounds and input sets                                                   *)

MaxWrites == 2

URLs == {"u1", "u2"}
ParserTypes == {"web", "youtube"}

\* opaque payload bytes of the parser tier: <<kind tag, data>>, <<>> is nil
Payloads == {<<"web", "d1">>, <<"youtube", "d2">>}
NilBytes == <<>>

\* texts of the agent tier; "" is Go's zero string
Texts == {"t1", "t2"}

\* A Go string that is joined or searched is a sequence of tokens: a token is a
\* comma-free piece of text or the comma itself.
Comma == <<",">>

HasComma(name) == \E i \in 1..Len(name) : name[i] = ","

\* agent names a client may pass: "x", "y" and "x,x"
NameX == <<"x">>
NameY == <<"y">>
NameXcX == <<"x", ",", "x">>

\* agent pipelines a client may pass
Pipelines ==
    { <<NameX, NameY>>, <<NameY, NameX>>, <<NameX, NameXcX>>, <<NameXcX, NameX>> }

\* the last second of the clock, and the inputs of the calls made while
\* statements may fail and time passes (SpecStore)
MaxClock == 2
StoreURLs == {"u1"}
StorePayloads == {<<"web", "d1">>}
StoreTexts == {"t1"}
StorePipelines == { <<NameX, NameY>>, <<NameY, NameX>> }

----------------------------------------------------------------------------
(* strings.Join                                                            *)

RECURSIVE Join(_, _)
Join(elems, sep) ==
    IF Len(elems) = 0 THEN <<>>
    ELSE IF Len(elems) = 1 THEN elems[1]
    ELSE elems[1] \o sep \o Join(Tail(elems), sep)

PipelineKeys == { Join(p, Comma) : p \in Pipelines }

----------------------------------------------------------------------------
(* SQL statements over the two tables.  A table is a bag of rows; the      *)
(* UNIQUE constraint is enforced only by what INSERT OR REPLACE does.      *)

RECURSIVE SumCopies(_, _)
SumCopies(tbl, rows) ==
    IF rows = {} THEN 0
    ELSE LET r == CHOOSE x \in rows : TRUE
         IN  tbl[r] + SumCopies(tbl, rows \ {r})

\* the rows of tbl that are in keep
KeepRows(tbl, keep) ==
    [ r \in (DOMAIN tbl) \cap keep |-> tbl[r] ]

\* SET accessed_at = accessedAt on the rows of tbl that are in hit
TouchRows(tbl, hit, accessedAt) ==
    LET touched == { [r EXCEPT !.accessed_at = accessedAt] : r \in hit }
        rest == (DOMAIN tbl) \ hit
    IN  [ x \in touched \cup rest |->
            SumCopies(tbl, { r \in hit : [r EXCEPT !.accessed_at = accessedAt] = x })
            + (IF x \in rest THEN tbl[x] ELSE 0) ]

\* mutant: the lookup forgets the parser kind
ParserKeyMatch_UrlOnly(r, url, parserType) ==
    r.url = url

ParserKeyMatch(r, url, parserType) ==
    r.url = url /\ r.parser_type = parserType

\* mutant: the lookup forgets the agent pipeline
AgentKeyMatch_NoPipeline(r, url, parserType, pipeline) ==
    r.url = url /\ r.parser_type = parserType

AgentKeyMatch(r, url, parserType, pipeline) ==
    r.url = url /\ r.parser_type = parserType /\ r.agent_pipeline = pipeline

\* SELECT output_data FROM parser_cache WHERE url = ? AND parser_type = ?
SelectParserOutput(tbl, url, parserType) ==
    { r \in DOMAIN tbl : ParserKeyMatch(r, url, parserType) }

\* SELECT output_data FROM agent_cache WHERE url = ? AND parser_type = ? AND agent_pipeline = ?
SelectAgentOutput(tbl, url, parserType, pipeline) ==
    { r \in DOMAIN tbl : AgentKeyMatch(r, url, parserType, pipeline) }

\* mutant: a plain INSERT, nothing is replaced
ReplaceIntoParserCache_InsertOnly(tbl, url, parserType, output, now) ==
    tbl (+) SetToBag({[ url |-> url, parser_type |-> parserType, output_data |-> output,
                        created_at |-> now, accessed_at |-> now ]})

\* INSERT OR REPLACE INTO parser_cache: rows violating UNIQUE(url, parser_type)
\* are deleted, then the new row is inserted
ReplaceIntoParserCache(tbl, url, parserType, output, now) ==
    LET row == [ url |-> url, parser_type |-> parserType, output_data |-> output,
                 created_at |-> now, accessed_at |-> now ]
        conflicting == { r \in DOMAIN tbl : ParserKeyMatch(r, url, parserType) }
    IN  KeepRows(tbl, (DOMAIN tbl) \ conflicting) (+) SetToBag({row})

\* mutant: every row of the url and parser kind is replaced
ReplaceIntoAgentCache_DropsPipelines(tbl, url, parserType, pipeline, output, now) ==
    LET row == [ url |-> url, parser_type |-> parserType, agent_pipeline |-> pipeline,
                 output_data |-> output, created_at |-> now, accessed_at |-> now ]
        conflicting == { r \in DOMAIN tbl : r.url = url /\ r.parser_type = parserType }
    IN  KeepRows(tbl, (DOMAIN tbl) \ conflicting) (+) SetToBag({row})

\* INSERT OR REPLACE INTO agent_cache, UNIQUE(url, parser_type, agent_pipeline)
ReplaceIntoAgentCache(tbl, url, parserType, pipeline, output, now) ==
    LET row == [ url |-> url, parser_type |-> parserType, agent_pipeline |-> pipeline,
                 output_data |-> output, created_at |-> now, accessed_at |-> now ]
        conflicting == { r \in DOMAIN tbl : AgentKeyMatch(r, url, parserType, pipeline) }
    IN  KeepRows(tbl, (DOMAIN tbl) \ conflicting) (+) SetToBag({row})

\* UPDATE parser_cache SET accessed_at = ? WHERE url = ? AND parser_type = ?
UpdateParserAccessTime(tbl, accessedAt, url, parserType) ==
    TouchRows(tbl, { r \in DOMAIN tbl : ParserKeyMatch(r, url, parserType) }, accessedAt)

\* UPDATE agent_cache SET accessed_at = ? WHERE url = ? AND parser_type = ? AND agent_pipeline = ?
UpdateAgentAccessTime(tbl, accessedAt, url, parserType, pipeline) ==
    TouchRows(tbl, { r \in DOMAIN tbl : AgentKeyMatch(r, url, parserType, pipeline) },
              accessedAt)

\* SELECT COUNT(*) FROM <table>
CountEntries(tbl) == BagCardinality(tbl)

----------------------------------------------------------------------------
(* The methods of *Cache as functions of the tables                        *)

\* mutant: the parser-cache lookup never finds anything
GetParserOutputResult_AlwaysMiss(tbl, url, parserType) ==
    [ output |-> NilBytes, found |-> FALSE ]

\* what GetParserOutput returns: (output, found); QueryRow scans the first row
GetParserOutputResult(tbl, url, parserType) ==
    LET rows == SelectParserOutput(tbl, url, parserType)
    IN  IF rows = {}
        THEN [ output |-> NilBytes, found |-> FALSE ]
        ELSE [ output |-> (CHOOSE r \in rows : TRUE).output_data, found |-> TRUE ]

\* the table GetParserOutput leaves: accessed_at is updated on a hit only
GetParserOutputTable(tbl, url, parserType, accessedAt) ==
    IF SelectParserOutput(tbl, url, parserType) = {}
    THEN tbl
    ELSE UpdateParserAccessTime(tbl, accessedAt, url, parserType)

\* the table SetParserOutput leaves
SetParserOutputTable(tbl, url, parserType, output, now) ==
    ReplaceIntoParserCache(tbl, url, parserType, output, now)

\* what GetAgentOutput returns: (output, found)
GetAgentOutputResult(tbl, url, parserType, agentPipeline) ==
    LET pipeline == Join(agentPipeline, Comma)
        rows == SelectAgentOutput(tbl, url, parserType, pipeline)
    IN  IF rows = {}
        THEN [ output |-> "", found |-> FALSE ]
        ELSE [ output |-> (CHOOSE r \in rows : TRUE).output_data, found |-> TRUE ]

\* the table GetAgentOutput leaves
GetAgentOutputTable(tbl, url, parserType, agentPipeline, accessedAt) ==
    LET pipeline == Join(agentPipeline, Comma)
    IN  IF SelectAgentOutput(tbl, url, parserType, pipeline) = {}
        THEN tbl
        ELSE UpdateAgentAccessTime(tbl, accessedAt, url, parserType, pipeline)

\* mutant: nothing is written
SetAgentOutputTable_Dropped(tbl, url, parserType, agentPipeline, output, now) == tbl

\* the table SetAgentOutput leaves
SetAgentOutputTable(tbl, url, parserType, agentPipeline, output, now) ==
    ReplaceIntoAgentCache(tbl, url, parserType, Join(agentPipeline, Comma), output, now)

----------------------------------------------------------------------------
(* SpecCache: a client of the exported methods                             *)

NoCall == [ op |-> "none" ]

\* history value of an agent-tier key no SetAgentOutput has written since Clear
NoSet == [ output |-> "", agents |-> <<>> ]

\* a nil error
NilError == <<>>

\* the error a failing statement of the database gives
StorageError == <<"database is locked">>

\* which statement of a method fails, "none" when the database works
GetFaults == {"none", "select", "update"}
SetFaults == {"none", "insert"}
ClearFaults == {"none", "parser_cache", "agent_cache"}
StatsFaults == {"none", "parser_cache", "agent_cache", "oldest"}

\* mutant: a failed update of accessed_at turns the hit into a miss
GetParserOutputReturn_UpdateFailureIsMiss(tbl, url, parserType, fault) ==
    IF fault # "none"
    THEN [ output |-> NilBytes, found |-> FALSE ]
    ELSE GetParserOutputResult(tbl, url, parserType)

\* (output, found) of GetParserOutput: an error of the SELECT is a miss, the
\* result of the UPDATE is dropped
GetParserOutputReturn(tbl, url, parserType, fault) ==
    IF fault = "select"
    THEN [ output |-> NilBytes, found |-> FALSE ]
    ELSE GetParserOutputResult(tbl, url, parserType)

\* (output, found) of GetAgentOutput
GetAgentOutputReturn(tbl, url, parserType, agentPipeline, fault) ==
    IF fault = "select"
    THEN [ output |-> "", found |-> FALSE ]
    ELSE GetAgentOutputResult(tbl, url, parserType, agentPipeline)

\* time.Unix(sec, 0) and the zero time.Time, which is no time.Unix(sec, 0) of
\* a second the clock shows
Unix(sec) == [ IsZero |-> FALSE, sec |-> sec ]
ZeroTime == [ IsZero |-> TRUE, sec |-> 0 ]

\* sql.NullInt64
NullInt64 == [ Valid |-> FALSE, Int64 |-> 0 ]

\* mutant: the agent tier is left out of the minimum
MinCreatedAt_ParserOnly(parserTbl, agentTbl) ==
    LET all == { r.created_at : r \in DOMAIN parserTbl }
    IN  IF all = {} THEN NullInt64
        ELSE [ Valid |-> TRUE, Int64 |-> CHOOSE m \in all : \A x \in all : m <= x ]

\* SELECT MIN(created_at) FROM (... parser_cache UNION ALL ... agent_cache)
MinCreatedAt(parserTbl, agentTbl) ==
    LET all == { r.created_at : r \in DOMAIN parserTbl }
               \cup { r.created_at : r \in DOMAIN agentTbl }
    IN  IF all = {} THEN NullInt64
        ELSE [ Valid |-> TRUE, Int64 |-> CHOOSE m \in all : \A x \in all : m <= x ]

\* stats.OldestEntry
OldestEntry(oldestUnix) ==
    IF oldestUnix.Valid /\ oldestUnix.Int64 > 0 THEN Unix(oldestUnix.Int64) ELSE ZeroTime

\* mutant: Clear leaves the agent tier as it is
ClearedAgentCache_Kept(tbl, fault) == tbl

\* the tables Clear leaves: the first DELETE that fails ends it
ClearedParserCache(tbl, fault) == IF fault = "parser_cache" THEN tbl ELSE EmptyBag
ClearedAgentCache(tbl, fault) == IF fault = "none" THEN EmptyBag ELSE tbl

GetParserOutput(url, parserType, now, fault) ==
    /\ now >= clock
    /\ clock' = now
    /\ ret' = [ op |-> "GetParserOutput", url |-> url, parser_type |-> parserType,
                fault |-> fault,
                res |-> GetParserOutputReturn(parser_cache, url, parserType, fault),
                err |-> NilError ]
    /\ parser_cache' = IF fault = "none"
                       THEN GetParserOutputTable(parser_cache, url, parserType, now)
                       ELSE parser_cache
    /\ UNCHANGED <<agent_cache, lastParserSet, lastAgentSet, nwrites, mainVars, retryVars, probeVars, callerVars>>

SetParserOutput(url, parserType, output, now, fault) ==
    /\ nwrites < MaxWrites
    /\ now >= clock
    /\ clock' = now
    /\ ret' = [ op |-> "SetParserOutput", fault |-> fault,
                existed |-> SelectParserOutput(parser_cache, url, parserType) # {},
                err |-> IF fault = "none" THEN NilError ELSE StorageError ]
    /\ IF fault = "none"
       THEN /\ parser_cache' = SetParserOutputTable(parser_cache, url, parserType, output, now)
            /\ lastParserSet' = [lastParserSet EXCEPT ![<<url, parserType>>] = output]
       ELSE UNCHANGED <<parser_cache, lastParserSet>>
    /\ nwrites' = nwrites + 1
    /\ UNCHANGED <<agent_cache, lastAgentSet, mainVars, retryVars, probeVars, callerVars>>

GetAgentOutput(url, parserType, agentPipeline, now, fault) ==
    /\ now >= clock
    /\ clock' = now
    /\ ret' = [ op |-> "GetAgentOutput", url |-> url, parser_type |-> parserType,
                agents |-> agentPipeline, fault |-> fault,
                res |-> GetAgentOutputReturn(agent_cache, url, parserType, agentPipeline,
                                             fault),
                err |-> NilError ]
    /\ agent_cache' = IF fault = "none"
                      THEN GetAgentOutputTable(agent_cache, url, parserType, agentPipeline,
                                               now)
                      ELSE agent_cache
    /\ UNCHANGED <<parser_cache, lastParserSet, lastAgentSet, nwrites, mainVars, retryVars, probeVars, callerVars>>

SetAgentOutput(url, parserType, agentPipeline, output, now, fault) ==
    /\ nwrites < MaxWrites
    /\ now >= clock
    /\ clock' = now
    /\ ret' = [ op |-> "SetAgentOutput", fault |-> fault,
                existed |-> SelectAgentOutput(agent_cache, url, parserType,
                                              Join(agentPipeline, Comma)) # {},
                err |-> IF fault = "none" THEN NilError ELSE StorageError ]
    /\ IF fault = "none"
       THEN /\ agent_cache' = SetAgentOutputTable(agent_cache, url, parserType,
                                                  agentPipeline, output, now)
            /\ lastAgentSet' =
                 [lastAgentSet EXCEPT ![<<url, parserType, Join(agentPipeline, Comma)>>] =
                      [ output |-> output, agents |-> agentPipeline ]]
       ELSE UNCHANGED <<agent_cache, lastAgentSet>>
    /\ nwrites' = nwrites + 1
    /\ UNCHANGED <<parser_cache, lastParserSet, mainVars, retryVars, probeVars, callerVars>>

\* DELETE FROM parser_cache; DELETE FROM agent_cache
Clear(fault) ==
    /\ parser_cache' = ClearedParserCache(parser_cache, fault)
    /\ agent_cache' = ClearedAgentCache(agent_cache, fault)
    /\ ret' = [ op |-> "Clear", fault |-> fault,
                had |-> [ parser |-> CountEntries(parser_cache),
                          agent |-> CountEntries(agent_cache) ],
                err |-> IF fault = "none" THEN NilError
                        ELSE IF fault = "parser_cache"
                        THEN <<"failed to clear parser cache: ">> \o StorageError
                        ELSE <<"failed to clear agent cache: ">> \o StorageError ]
    /\ lastParserSet' = IF fault = "parser_cache" THEN lastParserSet
                        ELSE [ k \in DOMAIN lastParserSet |-> NilBytes ]
    /\ lastAgentSet' = IF fault = "none" THEN [ k \in DOMAIN lastAgentSet |-> NoSet ]
                       ELSE lastAgentSet
    /\ UNCHANGED <<clock, nwrites, mainVars, retryVars, probeVars, callerVars>>

\* the three queries of Stats; a query that fails ends it with the fields
\* read so far
Stats(fault) ==
    /\ ret' = [ op |-> "Stats", fault |-> fault,
                ParserEntries |-> IF fault = "parser_cache" THEN 0
                                  ELSE CountEntries(parser_cache),
                AgentEntries |-> IF fault \in {"parser_cache", "agent_cache"} THEN 0
                                 ELSE CountEntries(agent_cache),
                OldestEntry |-> IF fault = "none"
                                THEN OldestEntry(MinCreatedAt(parser_cache, agent_cache))
                                ELSE ZeroTime,
                err |-> IF fault = "none" THEN NilError ELSE StorageError ]
    /\ UNCHANGED <<cacheVars, lastParserSet, lastAgentSet, nwrites, mainVars, retryVars, probeVars, callerVars>>

----------------------------------------------------------------------------
(* Serialization of parser responses                                       *)

\* a parser.Response: its dynamic type (web.Response, youtube.Response, ...)
\* and what it holds
Response(type, data) == [ type |-> type, data |-> data ]
NilResponse == [ type |-> "nil", data |-> "" ]

SerializableTypes == {"web", "youtube", "telegram"}

\* Go strings held by a payload, each a whole string: two of valid UTF-8, one
\* with a byte that is no UTF-8, and that one with U+FFFD in place of the byte
InvalidUTF8 == "d<0xff>"
ReplacedUTF8 == "d<U+FFFD>"

\* json.Marshal of a string: coerced to valid UTF-8, an invalid byte becomes
\* U+FFFD; json.Unmarshal gives back the string that was written
MarshalString(str) == IF str = InvalidUTF8 THEN ReplacedUTF8 ELSE str

\* mutant: the kind tag of the envelope is not compared
KindMismatch_Ignored(cachedParserType, parserType) == FALSE

\* cached.ParserType != parserType
KindMismatch(cachedParserType, parserType) == cachedParserType # parserType

\* float64 values of a segment; json.Marshal does not encode NaN
NaN == "NaN"

\* youtube.Response{Transcription{Title, Language, Segments}}; Segments is nil
\* or a slice of Segment{Start, End, Text}
Transcription(title, language, segments) ==
    [ Title |-> title, Language |-> language, Segments |-> segments ]
NilSegments == [ nil |-> TRUE, elems |-> <<>> ]
Segments(elems) == [ nil |-> FALSE, elems |-> elems ]
Segment(start, end, text) == [ Start |-> start, End |-> end, Text |-> text ]

\* telegram.Response{HTML}
TelegramData(html) == [ HTML |-> html ]

\* json.Marshal of the value a response of that type holds: (json, ok).  A
\* JSON object is the record of its members; null is NilSegments.  What
\* web.Response holds is opaque and kept as it is.
Marshal(type, data) ==
    IF type = "telegram"
    THEN [ json |-> [ HTML |-> MarshalString(data.HTML) ], ok |-> TRUE ]
    ELSE IF type = "youtube"
    THEN IF \E n \in 1..Len(data.Segments.elems) :
               NaN \in {data.Segments.elems[n].Start, data.Segments.elems[n].End}
         THEN [ json |-> <<>>, ok |-> FALSE ]
         ELSE [ json |->
                  [ Transcription |->
                      [ title |-> MarshalString(data.Title),
                        language |-> MarshalString(data.Language),
                        segments |->
                          [ nil |-> data.Segments.nil,
                            elems |->
                              [ n \in 1..Len(data.Segments.elems) |->
                                  [ start |-> data.Segments.elems[n].Start,
                                    end |-> data.Segments.elems[n].End,
                                    text |-> MarshalString(data.Segments.elems[n].Text) ] ] ] ] ],
                ok |-> TRUE ]
    ELSE [ json |-> data, ok |-> TRUE ]

\* json.Unmarshal of a JSON object into a response of that type: members the
\* object does not have leave the zero value
Unmarshal(type, json) ==
    IF type = "telegram"
    THEN TelegramData(IF "HTML" \in DOMAIN json THEN json.HTML ELSE "")
    ELSE IF type = "youtube"
    THEN IF "Transcription" \in DOMAIN json
         THEN LET t == json.Transcription
              IN  Transcription(t.title, t.language,
                     [ nil |-> t.segments.nil,
                       elems |-> [ n \in 1..Len(t.segments.elems) |->
                                     Segment(t.segments.elems[n].start,
                                             t.segments.elems[n].end,
                                             t.segments.elems[n].text) ] ])
         ELSE Transcription("", "", NilSegments)
    ELSE json

\* SerializeParserResponse: (bytes, ok); the bytes are the envelope
\* {"parser_type": ..., "data": ...}
SerializeParserResponse(parserType, resp) ==
    IF parserType \notin SerializableTypes
    THEN [ bytes |-> NilBytes, ok |-> FALSE ]
    ELSE IF resp.type # parserType
    THEN [ bytes |-> NilBytes, ok |-> FALSE ]
    ELSE IF ~Marshal(parserType, resp.data).ok
    THEN [ bytes |-> NilBytes, ok |-> FALSE ]
    ELSE [ bytes |-> <<parserType, Marshal(parserType, resp.data).json>>, ok |-> TRUE ]

\* DeserializeParserResponse: (response, ok); bytes that are no envelope do
\* not unmarshal
DeserializeParserResponse(parserType, data) ==
    IF Len(data) # 2
    THEN [ resp |-> NilResponse, ok |-> FALSE ]
    ELSE IF KindMismatch(data[1], parserType)
    THEN [ resp |-> NilResponse, ok |-> FALSE ]
    ELSE IF parserType \notin SerializableTypes
    THEN [ resp |-> NilResponse, ok |-> FALSE ]
    ELSE [ resp |-> Response(parserType, Unmarshal(parserType, data[2])), ok |-> TRUE ]

\* A text is what a response renders to, and the agents that rewrote it since.
Text(base, by) == [ base |-> base, by |-> by ]
NoContent == Text("", <<>>)

\* Response.String()
String(resp) == Text(resp.data, <<>>)

----------------------------------------------------------------------------
(* Strings that are searched or parsed: a string is the sequence of its     *)
(* characters                                                              *)

UpperChars == <<"A", "B", "C", "D", "E", "F", "G", "H", "I", "J", "K", "L", "M",
                "N", "O", "P", "Q", "R", "S", "T", "U", "V", "W", "X", "Y", "Z">>
LowerChars == <<"a", "b", "c", "d", "e", "f", "g", "h", "i", "j", "k", "l", "m",
                "n", "o", "p", "q", "r", "s", "t", "u", "v", "w", "x", "y", "z">>
DigitChars == <<"0", "1", "2", "3", "4", "5", "6", "7", "8", "9">>

IsDigit(c) == \E n \in 1..Len(DigitChars) : DigitChars[n] = c
DigitValue(c) == (CHOOSE n \in 1..Len(DigitChars) : DigitChars[n] = c) - 1

ToLowerChar(c) ==
    IF \E n \in 1..Len(UpperChars) : UpperChars[n] = c
    THEN LowerChars[CHOOSE n \in 1..Len(UpperChars) : UpperChars[n] = c]
    ELSE c

\* mutant: the case is left as it is
ToLower_Identity(str) == str

\* strings.ToLower
ToLower(str) == [ n \in 1..Len(str) |-> ToLowerChar(str[n]) ]

\* s[n:]
Drop(str, n) == SubSeq(str, n + 1, Len(str))

\* strings.Contains
Contains(str, substr) ==
    \E off \in 0..(Len(str) - Len(substr)) : SubSeq(str, off + 1, off + Len(substr)) = substr

\* strings.Index: the offset of the first occurrence, -1 if there is none
Index(str, substr) ==
    IF Contains(str, substr)
    THEN CHOOSE off \in 0..(Len(str) - Len(substr)) :
            /\ SubSeq(str, off + 1, off + Len(substr)) = substr
            /\ \A o \in 0..(off - 1) : SubSeq(str, o + 1, o + Len(substr)) # substr
    ELSE -1

\* the number of leading characters of str that are in allowed
RECURSIVE LeadingIn(_, _)
LeadingIn(str, allowed) ==
    IF str = <<>> THEN 0
    ELSE IF Head(str) \notin allowed THEN 0
    ELSE 1 + LeadingIn(Tail(str), allowed)

Digits == { DigitChars[n] : n \in 1..Len(DigitChars) }

\* the value of a string of digits
RECURSIVE DecimalValue(_)
DecimalValue(ds) ==
    IF ds = <<>> THEN 0
    ELSE DecimalValue(SubSeq(ds, 1, Len(ds) - 1)) * 10 + DigitValue(ds[Len(ds)])

\* the thousandths a string of fraction digits stands for
FractionMillis(ds) ==
    LET d(k) == IF k <= Len(ds) THEN DigitValue(ds[k]) ELSE 0
    IN  d(1) * 100 + d(2) * 10 + d(3)

----------------------------------------------------------------------------
(* filter: the pipeline of named rules applied to a feed item (SpecFilter) *)

\* a character of two bytes in UTF-8, a letter
EAcute == "U+00E9"

\* the number of bytes of a character in a Go string
UTF8Len(c) == IF c = EAcute THEN 2 ELSE 1

\* len(text): the number of bytes
RECURSIVE ByteLen(_)
ByteLen(text) == IF text = <<>> THEN 0 ELSE UTF8Len(Head(text)) + ByteLen(Tail(text))

\* unicode.IsLetter(r) || unicode.IsNumber(r)
IsLetterOrNumber(c) ==
    \/ \E n \in 1..Len(LowerChars) : c \in {LowerChars[n], UpperChars[n]}
    \/ IsDigit(c)
    \/ c = EAcute

\* unicode.IsSpace, as strings.TrimSpace uses it
IsSpace(c) == c \in {" ", "\t", "\n", "\r"}

\* config.Filter
FilterConfig(minLength, minWords, excludePatterns, requireParagraphs) ==
    [ MinLength |-> minLength, MinWords |-> minWords,
      ExcludePatterns |-> excludePatterns, RequireParagraphs |-> requireParagraphs ]

\* the characters of a configured pattern
Chars(pattern) ==
    CASE pattern = "ad" -> <<"a", "d">>
      [] pattern = "b" -> <<"b">>
      [] pattern = "(" -> <<"(">>

\* regexp.Compile: a pattern of letters is the expression that matches them,
\* an unclosed group is an error
Compile(pattern) ==
    IF \A n \in 1..Len(Chars(pattern)) : IsLetterOrNumber(Chars(pattern)[n])
    THEN [ ok |-> TRUE, re |-> Chars(pattern) ]
    ELSE [ ok |-> FALSE, re |-> <<>> ]

\* re.MatchString(text) of an expression of letters
MatchString(re, text) == Contains(text, re)

\* the compiled patterns of a rule: those that compile, in configured order
RECURSIVE CompiledPatterns(_)
CompiledPatterns(patterns) ==
    IF patterns = <<>> THEN <<>>
    ELSE (IF Compile(Head(patterns)).ok THEN << Compile(Head(patterns)).re >> ELSE <<>>)
         \o CompiledPatterns(Tail(patterns))

\* NewFilterPipeline: fp.filters, a CompiledFilter for every configured name
NewFilterPipeline(filtersConfig) ==
    [ name \in DOMAIN filtersConfig |->
        [ config |-> filtersConfig[name],
          excludePatterns |-> CompiledPatterns(filtersConfig[name].ExcludePatterns) ] ]

\* mutant: a word is a maximal run of characters that are not spaces
RECURSIVE countWords_Fields(_)
countWords_Fields(text) ==
    IF text = <<>> THEN 0
    ELSE (IF ~IsSpace(Head(text)) /\ (Len(text) = 1 \/ IsSpace(text[2])) THEN 1 ELSE 0)
         + countWords_Fields(Tail(text))

\* the loop of countWords from character n on, inWord telling whether the
\* character before was of a word
RECURSIVE countWordsFrom(_, _, _)
countWordsFrom(text, n, inWord) ==
    IF n > Len(text) THEN 0
    ELSE IF IsLetterOrNumber(text[n])
         THEN (IF inWord THEN 0 ELSE 1) + countWordsFrom(text, n + 1, TRUE)
         ELSE countWordsFrom(text, n + 1, FALSE)

countWords(text) == countWordsFrom(text, 1, FALSE)

\* strings.Split(text, "\n")
RECURSIVE Split(_)
Split(text) ==
    IF \A n \in 1..Len(text) : text[n] # "\n" THEN << text >>
    ELSE LET at == CHOOSE n \in 1..Len(text) :
                      text[n] = "\n" /\ \A m \in 1..(n - 1) : text[m] # "\n"
         IN  << SubSeq(text, 1, at - 1) >> \o Split(Drop(text, at))

\* strings.TrimSpace(line) != ""
NotBlank(line) == \E n \in 1..Len(line) : ~IsSpace(line[n])

hasMultipleParagraphs(text) ==
    LET lines == Split(text)
    IN  Cardinality({ n \in 1..Len(lines) : NotBlank(lines[n]) }) >= 2

\* the two values a filter returns; a reason is the sequence of the strings
\* that are concatenated
Include == [ include |-> TRUE, reason |-> <<>> ]
Exclude(reason) == [ include |-> FALSE, reason |-> reason ]

\* the loop over filter.excludePatterns from index i on
RECURSIVE MatchFrom(_, _, _, _)
MatchFrom(filter, filterName, text, i) ==
    IF i > Len(filter.excludePatterns) THEN Include
    ELSE IF MatchString(filter.excludePatterns[i], text)
         THEN Exclude(<< filterName, ":exclude_pattern[",
                         filter.config.ExcludePatterns[i], "]" >>)
         ELSE MatchFrom(filter, filterName, text, i + 1)

applyFilter(feedItem, filter, filterName) ==
    LET text == feedItem.Title \o <<" ">> \o feedItem.Description
    IN  IF filter.config.MinLength > 0 /\ ByteLen(text) < filter.config.MinLength
        THEN Exclude(<< filterName, ":min_length" >>)
        ELSE IF filter.config.MinWords > 0 /\ countWords(text) < filter.config.MinWords
        THEN Exclude(<< filterName, ":min_words" >>)
        ELSE IF ~MatchFrom(filter, filterName, text, 1).include
        THEN MatchFrom(filter, filterName, text, 1)
        ELSE IF filter.config.RequireParagraphs /\ ~hasMultipleParagraphs(text)
        THEN Exclude(<< filterName, ":require_paragraphs" >>)
        ELSE Include

\* mutant: a failing filter does not end the loop, the last one gives the reason
RECURSIVE ShouldIncludeFrom_All(_, _, _, _)
ShouldIncludeFrom_All(fp, feedItem, filterNames, k) ==
    IF k > Len(filterNames) THEN Include
    ELSE LET rest == ShouldIncludeFrom_All(fp, feedItem, filterNames, k + 1)
         IN  IF filterNames[k] \notin DOMAIN fp \/ ~rest.include THEN rest
             ELSE IF ~applyFilter(feedItem, fp[filterNames[k]], filterNames[k]).include
                  THEN applyFilter(feedItem, fp[filterNames[k]], filterNames[k])
                  ELSE rest

\* the loop of ShouldInclude over filterNames from index k on
RECURSIVE ShouldIncludeFrom(_, _, _, _)
ShouldIncludeFrom(fp, feedItem, filterNames, k) ==
    IF k > Len(filterNames) THEN Include
    ELSE IF filterNames[k] \notin DOMAIN fp
         THEN ShouldIncludeFrom(fp, feedItem, filterNames, k + 1)
         ELSE IF ~applyFilter(feedItem, fp[filterNames[k]], filterNames[k]).include
              THEN applyFilter(feedItem, fp[filterNames[k]], filterNames[k])
              ELSE ShouldIncludeFrom(fp, feedItem, filterNames, k + 1)

ShouldInclude(fp, feedItem, filterNames) ==
    IF Len(filterNames) = 0 THEN Include
    ELSE ShouldIncludeFrom(fp, feedItem, filterNames, 1)

\* the title and the description of a feed item
Titles == { <<>>, <<"a", "d">>, <<"a", "-", "b">>, <<EAcute, " ", "b">> }
Descriptions == { <<>>, <<"c">>, <<"c", "\n", "d">>, <<"\n", " ", "c">> }

\* [filters.<name>] of the configuration: the rule "short" takes every
\* combination of the options, "spam" is one of two rules
FiltersConfigs ==
    { [ short |-> FilterConfig(minLength, minWords, excludePatterns, requireParagraphs),
        spam |-> spam ] :
        minLength \in {0, 5}, minWords \in {0, 3},
        excludePatterns \in { <<>>, <<"(", "ad">>, <<"b", "ad">>, <<"ad", "(">> },
        requireParagraphs \in BOOLEAN,
        spam \in { FilterConfig(0, 0, <<"b">>, FALSE), FilterConfig(0, 2, <<>>, TRUE) } }

\* resource.FilterNames
FilterNames ==
    { <<>>, <<"short">>, <<"missing">>, <<"missing", "short">>,
      <<"short", "spam">>, <<"spam", "short">> }

\* main applies the filters of a resource to an item
ApplyFilters(filtersConfig, feedItem, filterNames) ==
    /\ probe.op = "none"
    /\ probe' = [ op |-> "ShouldInclude", filtersConfig |-> filtersConfig, item |-> feedItem,
                  filterNames |-> filterNames,
                  res |-> ShouldInclude(NewFilterPipeline(filtersConfig), feedItem, filterNames) ]
    /\ UNCHANGED <<cacheVars, clientVars, mainVars, retryVars, callerVars>>

----------------------------------------------------------------------------
(* main: inputs                                                            *)

MaxRuns == 2

Summary == <<"summary">>
Unknown == <<"translate">>

ResourceConfig(parserT, agentNames, enabled) ==
    [ ParserT |-> parserT, Agents |-> agentNames, Enabled |-> enabled ]

IsEnabled(r) == r.Enabled

\* the configurations a process may be started with
Configs ==
    { << ResourceConfig("web", <<>>, TRUE) >>,
      << ResourceConfig("web", <<Summary>>, TRUE) >>,
      << ResourceConfig("web", <<Summary, Summary>>, TRUE) >>,
      << ResourceConfig("youtube", <<Summary>>, FALSE),
         ResourceConfig("web", <<Summary>>, TRUE) >>,
      << ResourceConfig("web", <<Unknown>>, TRUE) >> }

\* the configurations, feeds and parse results of the runs on a failing cache
\* (SpecFaults); the response of the torrent parser is not serializable
FaultConfigs ==
    { << ResourceConfig("web", <<Summary>>, TRUE) >>,
      << ResourceConfig("youtube", <<>>, FALSE),
         ResourceConfig("torrent", <<>>, TRUE) >> }
FaultFeedItems == { << [ Link |-> "u1" ] >>, << [ Link |-> "u1" ], [ Link |-> "u2" ] >> }
FaultParsedData == {"d1"}

\* a batch of three resources, the second one disabled, whose feeds may be
\* empty (SpecBatch)
BatchConfigs ==
    { << ResourceConfig("web", <<>>, TRUE),
         ResourceConfig("youtube", <<Summary>>, FALSE),
         ResourceConfig("web", <<Summary>>, TRUE) >> }
BatchFeedItems == { <<>>, << [ Link |-> "u1" ] >>, << [ Link |-> "u2" ], [ Link |-> "u1" ] >> }

\* configurations that pass or fail the startup (SpecStartup): an unknown
\* agent type, an unknown parser kind on an enabled and on a disabled resource
StartupConfigs ==
    { << ResourceConfig("web", <<Summary>>, TRUE) >>,
      << ResourceConfig("web", <<Unknown>>, TRUE) >>,
      << ResourceConfig("rss", <<>>, TRUE) >>,
      << ResourceConfig("rss", <<Summary>>, FALSE), ResourceConfig("web", <<>>, TRUE) >> }

\* resources with filters (SpecFiltered): the first names a rule and an
\* unknown one, the second is disabled, the third has no filters
FilteredResource(parserT, agentNames, enabled, filterNames) ==
    [ ParserT |-> parserT, Agents |-> agentNames, Enabled |-> enabled,
      FilterNames |-> filterNames ]
FilteredConfigs ==
    { << FilteredResource("web", <<Summary>>, TRUE, <<"missing", "short">>),
         FilteredResource("web", <<Summary>>, FALSE, <<>>),
         FilteredResource("web", <<>>, TRUE, <<>>) >> }

\* [filters.short] and [filters.spam] of the configuration of every run
ConfFilters ==
    [ short |-> FilterConfig(5, 0, <<>>, FALSE), spam |-> FilterConfig(0, 0, <<"b">>, FALSE) ]

\* items with a title and a description: of three bytes with the joining
\* space, and of five
ShortItem(link) == [ Link |-> link, Title |-> <<"a", "d">>, Description |-> <<>> ]
LongItem(link) == [ Link |-> link, Title |-> <<"a", "-", "b">>, Description |-> <<"c">> ]
FilteredFeedItems ==
    { << ShortItem("u1") >>, << ShortItem("u1"), LongItem("u2") >>, << LongItem("u1") >> }

\* resource.FilterNames, nil where the configuration names no filter
FilterNamesOf(resourceConfig) ==
    IF "FilterNames" \in DOMAIN resourceConfig THEN resourceConfig.FilterNames ELSE <<>>

\* mutant: the filters exclude nothing
PassesFilters_Always(resourceConfig, feedItem) == TRUE

\* "Apply filters" of the item loop: FALSE when the item is filtered out
PassesFilters(resourceConfig, feedItem) ==
    IF Len(FilterNamesOf(resourceConfig)) > 0
    THEN ShouldInclude(NewFilterPipeline(ConfFilters), feedItem,
                       FilterNamesOf(resourceConfig)).include
    ELSE TRUE

\* a feed item; its Link is the cache key's url
FeedItem(link) == [ Link |-> link ]

\* the items a fetched feed may hold
FeedItems ==
    { << FeedItem("u1") >>,
      << FeedItem("u1"), FeedItem("u1") >>,
      << FeedItem("u1"), FeedItem("u2") >> }

\* a *fetcher.Feed; nil where the fetch failed or the resource is disabled
Feed(items) == [ nil |-> FALSE, Items |-> items ]
NoFeed == [ nil |-> TRUE, Items |-> <<>> ]

\* what Parse may extract from an item
ParsedData == {"d1", "d2"}

\* how one call of an agent's Process may end
AgentOutcomes == {"ok", "retryable", "fatal"}

\* the same with the error of a call that ctx, once done, has ended
CancellableOutcomes == AgentOutcomes \cup {"cancelled"}

NothingDone ==
    [ agentGet |-> "none", parserGet |-> "none", parse |-> "none", parserSet |-> FALSE,
      parsed |-> NoContent, called |-> <<>>, failed |-> "no", agentSet |-> FALSE,
      faults |-> {} ]

----------------------------------------------------------------------------
(* Agents                                                                  *)

\* CollectUniqueAgentTypes: the names used by any resource
CollectUniqueAgentTypes(resources) ==
    UNION { { resources[r].Agents[n] : n \in 1..Len(resources[r].Agents) } :
            r \in 1..Len(resources) }

\* the agent summary.New returns: retry tells whether it is a retryAgent
SummaryAgent == [ type |-> "summary", retry |-> FALSE ]

\* mutant: an unknown agent type is left out of the map
InitAgents_Lenient(agentTypes) ==
    [ ok |-> TRUE, agents |-> [ t \in { a \in agentTypes : a = Summary } |-> SummaryAgent ] ]

\* InitAgents: the map of agents, or an error on an unknown type.  The agent
\* stored under a name is the one summary.New returns.
InitAgents(agentTypes) ==
    IF \A t \in agentTypes : t = Summary
    THEN [ ok |-> TRUE, agents |-> [ t \in agentTypes |-> SummaryAgent ] ]
    ELSE [ ok |-> FALSE, agents |-> <<>> ]

\* mutant: the agent's output is thrown away
ProcessedContent_Discarded(text, agentName) == text

\* what an agent's Process returns for a content when it succeeds
ProcessedContent(text, agentName) == Text(text.base, Append(text.by, agentName))

----------------------------------------------------------------------------
(* main: one process run after another on the same cache database          *)

item == feeds[iRes].Items[jItem]
resource == conf[iRes]

\* the process ends: its memory is gone, the cache database stays
Exit(event) ==
    /\ pc' = "idle"
    /\ conf' = <<>>
    /\ agents' = <<>>
    /\ feeds' = <<>>
    /\ iRes' = 0
    /\ jItem' = 0
    /\ content' = NoContent
    /\ agentIdx' = 0
    /\ errs' = <<>>
    /\ pages' = <<>>
    /\ ctxDone' = FALSE
    /\ did' = NothingDone
    /\ ev' = event

\* `continue` of the item loop
NextItem ==
    IF jItem < Len(feeds[iRes].Items)
    THEN /\ jItem' = jItem + 1
         /\ pc' = "item"
         /\ UNCHANGED iRes
    ELSE /\ jItem' = 0
         /\ iRes' = iRes + 1
         /\ pc' = "feed"

\* factory.Init(parserTypes) for the parser kinds of the enabled resources: an
\* unknown kind is an error
FactoryInit(resources) ==
    \A r \in 1..Len(resources) :
        IsEnabled(resources[r]) => resources[r].ParserT \in {"web", "telegram", "torrent", "youtube"}

\* log.Fatalf on the error of factory.Init, before the database is opened
StartFatalParsers(cfg, cleanCache) ==
    /\ pc = "idle"
    /\ runs < MaxRuns
    /\ ~FactoryInit(cfg)
    /\ runs' = runs + 1
    /\ Exit([ op |-> "fatal", why |-> "parsers", cleanCache |-> cleanCache ])
    /\ UNCHANGED <<cacheVars, clientVars, retryVars, probeVars, callerVars, parsedKeys, storedKeys, storedAgentKeys>>

\* myfeed -clean: cacheDB.Clear() and the process returns, or log.Fatalf on
\* the error of Clear
StartClean(cfg, fault) ==
    /\ pc = "idle"
    /\ runs < MaxRuns
    /\ FactoryInit(cfg)
    /\ runs' = runs + 1
    /\ parser_cache' = ClearedParserCache(parser_cache, fault)
    /\ agent_cache' = ClearedAgentCache(agent_cache, fault)
    /\ IF fault = "parser_cache"
       THEN UNCHANGED <<parsedKeys, storedKeys>>
       ELSE parsedKeys' = {} /\ storedKeys' = {}
    /\ IF fault = "none" THEN storedAgentKeys' = {} ELSE UNCHANGED storedAgentKeys
    /\ Exit([ op |-> "clean", failed |-> fault # "none",
              entries |-> BagCardinality(parser_cache) + BagCardinality(agent_cache) ])
    /\ UNCHANGED <<clock, clientVars, retryVars, probeVars, callerVars>>

\* log.Fatal before any fetching: agents are configured and the credentials
\* are not valid, or InitAgents fails
StartFatal(cfg, credsValid) ==
    /\ pc = "idle"
    /\ runs < MaxRuns
    /\ FactoryInit(cfg)
    /\ LET agentTypes == CollectUniqueAgentTypes(cfg)
       IN  /\ agentTypes # {}
           /\ ~credsValid \/ ~InitAgents(agentTypes).ok
    /\ runs' = runs + 1
    /\ Exit([ op |-> "fatal", why |-> IF credsValid THEN "agents" ELSE "credentials",
              cleanCache |-> FALSE ])
    /\ UNCHANGED <<cacheVars, clientVars, retryVars, probeVars, callerVars, parsedKeys, storedKeys, storedAgentKeys>>

Start(cfg, credsValid) ==
    /\ pc = "idle"
    /\ runs < MaxRuns
    /\ FactoryInit(cfg)
    /\ LET agentTypes == CollectUniqueAgentTypes(cfg)
       IN  /\ agentTypes # {} => credsValid /\ InitAgents(agentTypes).ok
           /\ agents' = IF agentTypes # {} THEN InitAgents(agentTypes).agents ELSE <<>>
    /\ runs' = runs + 1
    /\ conf' = cfg
    /\ feeds' = [ k \in 1..Len(cfg) |-> NoFeed ]
    /\ pages' = [ k \in 1..Len(cfg) |-> <<>> ]
    /\ errs' = <<>>
    /\ iRes' = 1
    /\ pc' = "fetch"
    /\ ev' = [ op |-> "start", credsValid |-> credsValid ]
    /\ UNCHANGED <<cacheVars, clientVars, retryVars, probeVars, callerVars, jItem, content, agentIdx, ctxDone, did,
                   parsedKeys, storedKeys, storedAgentKeys>>

\* mutant: the checks of ctx.Done() never find it closed
Done_Never(ctx) == FALSE

\* select { case <-ctx.Done(): return; default: }: whether the case is taken
Done(ctx) == ctx

\* SIGINT or SIGTERM arrives
Interrupt ==
    /\ pc # "idle"
    /\ ~ctxDone
    /\ ctxDone' = TRUE
    /\ UNCHANGED <<cacheVars, clientVars, retryVars, probeVars, callerVars, pc, conf, agents, feeds, iRes, jItem, content, agentIdx,
                   errs, pages, runs, ev, did, parsedKeys, storedKeys, storedAgentKeys>>

\* the fetch loop skips a disabled resource
FetchSkip ==
    /\ pc = "fetch"
    /\ iRes <= Len(conf)
    /\ ~IsEnabled(resource)
    /\ iRes' = iRes + 1
    /\ ev' = [ op |-> "skip" ]
    /\ UNCHANGED <<cacheVars, clientVars, retryVars, probeVars, callerVars, pc, conf, agents, feeds, jItem, content, agentIdx,
                   errs, pages, ctxDone, runs, did, parsedKeys, storedKeys, storedAgentKeys>>

\* the process returns when it finds ctx done: before a fetch, at the head of
\* the feed loop, at the head of the item loop
Interrupted ==
    /\ Done(ctxDone)
    /\ \/ pc = "fetch" /\ iRes <= Len(conf) /\ IsEnabled(resource)
       \/ pc = "feed" /\ iRes <= Len(feeds)
       \/ pc = "item"
    /\ Exit([ op |-> "interrupted", at |-> pc, iRes |-> iRes, jItem |-> jItem ])
    /\ UNCHANGED <<cacheVars, clientVars, retryVars, probeVars, callerVars, runs, parsedKeys, storedKeys, storedAgentKeys>>

\* f.Fetch(ctx, resource.FeedURL) returns a feed
Fetch(items) ==
    /\ pc = "fetch"
    /\ iRes <= Len(conf)
    /\ IsEnabled(resource)
    /\ ~Done(ctxDone)
    /\ feeds' = [feeds EXCEPT ![iRes] = Feed(items)]
    /\ iRes' = iRes + 1
    /\ ev' = [ op |-> "fetch" ]
    /\ UNCHANGED <<cacheVars, clientVars, retryVars, probeVars, callerVars, pc, conf, agents, jItem, content, agentIdx, errs,
                   pages, ctxDone, runs, did, parsedKeys, storedKeys, storedAgentKeys>>

\* mutant: a failed fetch ends the fetch loop
FetchFailNext_Abort == "idle"

\* where the fetch loop goes on after a failed fetch: `continue`
FetchFailNext == "fetch"

\* f.Fetch returns an error
FetchFail ==
    /\ pc = "fetch"
    /\ iRes <= Len(conf)
    /\ IsEnabled(resource)
    /\ ~Done(ctxDone)
    /\ errs' = Append(errs, [ what |-> "fetch", at |-> iRes ])
    /\ iRes' = iRes + 1
    /\ pc' = FetchFailNext
    /\ ev' = [ op |-> "fetchFail" ]
    /\ UNCHANGED <<cacheVars, clientVars, retryVars, probeVars, callerVars, conf, agents, feeds, jItem, content, agentIdx,
                   pages, ctxDone, runs, did, parsedKeys, storedKeys, storedAgentKeys>>

\* end of the fetch loop: errs = nil, the feed loop starts
FetchDone ==
    /\ pc = "fetch"
    /\ iRes > Len(conf)
    /\ errs' = <<>>
    /\ iRes' = 1
    /\ pc' = "feed"
    /\ ev' = [ op |-> "fetched" ]
    /\ UNCHANGED <<cacheVars, clientVars, retryVars, probeVars, callerVars, conf, agents, feeds, jItem, content, agentIdx,
                   pages, ctxDone, runs, did, parsedKeys, storedKeys, storedAgentKeys>>

\* head of the feed loop: a nil feed is skipped, else its items are walked
FeedBegin ==
    /\ pc = "feed"
    /\ iRes <= Len(feeds)
    /\ ~Done(ctxDone)
    /\ IF feeds[iRes].nil \/ Len(feeds[iRes].Items) = 0
       THEN /\ iRes' = iRes + 1
            /\ UNCHANGED <<pc, jItem>>
       ELSE /\ jItem' = 1
            /\ pc' = "item"
            /\ UNCHANGED iRes
    /\ ev' = [ op |-> "feed" ]
    /\ UNCHANGED <<cacheVars, clientVars, retryVars, probeVars, callerVars, conf, agents, feeds, content, agentIdx, errs,
                   pages, ctxDone, runs, did, parsedKeys, storedKeys, storedAgentKeys>>

\* mutant: after an agent-cache hit the item goes on to step 2
CacheHitNext_FallThrough == "parserCache"

\* where an item goes on after an agent-cache hit: `if !cacheHit` skips steps 2-4
CacheHitNext == "page"

\* the cache failures an item has met so far: the call that failed, or
\* "accessed_at" where only the update after a hit did
Failed(faults, what, fault) ==
    IF fault = "none" THEN faults
    ELSE IF fault = "update" THEN faults \cup {"accessed_at"}
    ELSE faults \cup {what}

\* the item is excluded by the filters of its resource: `continue`
ItemFiltered ==
    /\ pc = "item"
    /\ ~Done(ctxDone)
    /\ ~PassesFilters(resource, item)
    /\ ev' = [ op |-> "filtered", at |-> iRes, link |-> item.Link,
               reason |-> ShouldInclude(NewFilterPipeline(ConfFilters), item,
                                        FilterNamesOf(resource)).reason ]
    /\ NextItem
    /\ UNCHANGED <<cacheVars, clientVars, retryVars, probeVars, callerVars, conf, agents, feeds, content, agentIdx, errs,
                   pages, ctxDone, runs, did, parsedKeys, storedKeys, storedAgentKeys>>

\* Step 1 of an item that passed the filters: the agent cache is asked first
\* when agents are configured
ItemBegin(fault) ==
    /\ pc = "item"
    /\ ~Done(ctxDone)
    /\ PassesFilters(resource, item)
    /\ Len(resource.Agents) = 0 => fault = "none"
    /\ LET parserT == resource.ParserT
           res == GetAgentOutputReturn(agent_cache, item.Link, parserT, resource.Agents,
                                       fault)
       IN  IF Len(resource.Agents) > 0
           THEN /\ agent_cache' = IF fault = "none"
                                  THEN GetAgentOutputTable(agent_cache, item.Link, parserT,
                                                           resource.Agents, clock)
                                  ELSE agent_cache
                /\ IF res.found
                   THEN /\ content' = res.output
                        /\ did' = [NothingDone EXCEPT !.agentGet = "hit",
                                       !.faults = Failed({}, "GetAgentOutput", fault)]
                        /\ pc' = CacheHitNext
                   ELSE /\ content' = NoContent
                        /\ did' = [NothingDone EXCEPT !.agentGet = "miss",
                                       !.faults = Failed({}, "GetAgentOutput", fault)]
                        /\ pc' = "parserCache"
           ELSE /\ content' = NoContent
                /\ did' = NothingDone
                /\ pc' = "parserCache"
                /\ UNCHANGED agent_cache
    /\ agentIdx' = 0
    /\ ev' = [ op |-> "item",
               stored |-> <<item.Link, resource.ParserT, resource.Agents>> \in storedAgentKeys ]
    /\ UNCHANGED <<parser_cache, clock, clientVars, retryVars, probeVars, callerVars, conf, agents, feeds, iRes, jItem, errs, pages,
                   ctxDone, runs, parsedKeys, storedKeys, storedAgentKeys>>

\* after content = parsedData.String(): the agents run if any is configured
AfterParsed ==
    IF Len(resource.Agents) > 0
    THEN pc' = "agents" /\ agentIdx' = 1
    ELSE pc' = "page" /\ agentIdx' = 0

\* mutant: an item whose parser-cache lookup gave nothing is not parsed
CacheMissNext_NoParse == "page"

\* where an item goes on when parsedData is still nil after step 2
CacheMissNext == "parse"

\* the bytes a row gives when it was written for another parser kind
OtherKind(bytes) ==
    IF bytes = NilBytes THEN bytes
    ELSE <<CHOOSE k \in SerializableTypes : k # bytes[1], bytes[2]>>

\* Step 2: the parser cache is asked, a hit is deserialized.  The lookup may
\* fail as in GetFaults, or the row may hold bytes of another parser kind.
ParserLookup(fault) ==
    /\ pc = "parserCache"
    /\ LET parserT == resource.ParserT
           res == GetParserOutputReturn(parser_cache, item.Link, parserT, fault)
           cached == IF fault = "mismatch" THEN OtherKind(res.output) ELSE res.output
           data == DeserializeParserResponse(parserT, cached)
       IN  /\ fault = "mismatch" => res.found
           /\ parser_cache' = IF fault \in {"none", "mismatch"}
                              THEN GetParserOutputTable(parser_cache, item.Link, parserT,
                                                        clock)
                              ELSE parser_cache
           /\ IF res.found /\ data.ok
              THEN /\ content' = String(data.resp)
                   /\ did' = [did EXCEPT !.parserGet = "hit", !.parsed = String(data.resp),
                                         !.faults = Failed(@, "GetParserOutput", fault)]
                   /\ AfterParsed
              ELSE /\ did' = [did EXCEPT !.parserGet = "miss",
                                         !.faults = Failed(@, "GetParserOutput", fault)]
                   /\ pc' = CacheMissNext
                   /\ UNCHANGED <<content, agentIdx>>
    /\ ev' = [ op |-> "parserLookup" ]
    /\ UNCHANGED <<agent_cache, clock, clientVars, retryVars, probeVars, callerVars, conf, agents, feeds, iRes, jItem, errs, pages,
                   ctxDone, runs, parsedKeys, storedKeys, storedAgentKeys>>

\* Step 3: p.Parse(item) returns a response; it is serialized and cached
Parse(data, fault) ==
    /\ pc = "parse"
    /\ LET parserT == resource.ParserT
           parsedData == Response(parserT, data)
           serialized == SerializeParserResponse(parserT, parsedData)
       IN  /\ ~serialized.ok => fault = "none"
           /\ IF serialized.ok /\ fault = "none"
              THEN /\ parser_cache' = SetParserOutputTable(parser_cache, item.Link, parserT,
                                                           serialized.bytes, clock)
                   /\ storedKeys' = storedKeys \cup {<<item.Link, parserT>>}
              ELSE UNCHANGED <<parser_cache, storedKeys>>
           /\ content' = String(parsedData)
           /\ did' = [did EXCEPT !.parse = "ok", !.parsed = String(parsedData),
                                 !.parserSet = serialized.ok /\ fault = "none",
                                 !.faults = IF serialized.ok
                                            THEN Failed(@, "SetParserOutput", fault)
                                            ELSE @ \cup {"SerializeParserResponse"}]
           /\ parsedKeys' = parsedKeys \cup {<<item.Link, parserT>>}
           /\ ev' = [ op |-> "parse", link |-> item.Link, parserT |-> parserT,
                      again |-> <<item.Link, parserT>> \in parsedKeys,
                      stored |-> <<item.Link, parserT>> \in storedKeys ]
    /\ AfterParsed
    /\ UNCHANGED <<agent_cache, clock, clientVars, retryVars, probeVars, callerVars, conf, agents, feeds, iRes, jItem, errs, pages,
                   ctxDone, runs, storedAgentKeys>>

\* p.Parse(item) returns an error: the item is dropped
ParseFail ==
    /\ pc = "parse"
    /\ errs' = Append(errs, [ what |-> "parse", at |-> iRes ])
    /\ did' = [did EXCEPT !.parse = "err"]
    /\ parsedKeys' = parsedKeys \cup {<<item.Link, resource.ParserT>>}
    /\ ev' = [ op |-> "parse", link |-> item.Link, parserT |-> resource.ParserT,
               again |-> <<item.Link, resource.ParserT>> \in parsedKeys,
               stored |-> <<item.Link, resource.ParserT>> \in storedKeys ]
    /\ NextItem
    /\ UNCHANGED <<cacheVars, clientVars, retryVars, probeVars, callerVars, conf, agents, feeds, content, agentIdx, pages,
                   ctxDone, runs, storedKeys, storedAgentKeys>>

\* Step 4: the next agent of resource.Agents processes the content
AgentCall(outcome) ==
    /\ pc = "agents"
    /\ agentIdx <= Len(resource.Agents)
    /\ outcome = "cancelled" => ctxDone
    /\ LET agentName == resource.Agents[agentIdx]
       IN  IF agentName \notin DOMAIN agents
           THEN /\ errs' = Append(errs, [ what |-> "agent not found", at |-> iRes ])
                /\ agentIdx' = agentIdx + 1
                /\ ev' = [ op |-> "agentMissing" ]
                /\ UNCHANGED <<content, did, pc>>
           ELSE /\ ev' = [ op |-> "agent", outcome |-> outcome, invocations |-> 1,
                           retry |-> agents[agentName].retry ]
                /\ IF outcome = "ok"
                   THEN /\ content' = ProcessedContent(content, agentName)
                        /\ did' = [did EXCEPT !.called = Append(@, agentName)]
                        /\ agentIdx' = agentIdx + 1
                        /\ UNCHANGED <<errs, pc>>
                   ELSE /\ errs' = Append(errs, [ what |-> "agent", at |-> iRes ])
                        /\ did' = [did EXCEPT !.called = Append(@, agentName),
                                              !.failed = outcome]
                        /\ pc' = "agentsDone"
                        /\ UNCHANGED <<content, agentIdx>>
    /\ UNCHANGED <<cacheVars, clientVars, retryVars, probeVars, callerVars, conf, agents, feeds, iRes, jItem, pages, ctxDone, runs,
                   parsedKeys, storedKeys, storedAgentKeys>>

\* mutant: the loop is taken to be over after its first agent
ChainOver_Early(idx, names) == idx > 1

\* the range over resource.Agents has no agent left
ChainOver(idx, names) == idx > Len(names)

\* the agent loop is over, by its end or by break: the content is cached
CacheAgentOutput(fault) ==
    /\ \/ pc = "agents" /\ ChainOver(agentIdx, resource.Agents)
       \/ pc = "agentsDone"
    /\ IF fault = "none"
       THEN /\ agent_cache' = SetAgentOutputTable(agent_cache, item.Link, resource.ParserT,
                                                  resource.Agents, content, clock)
            /\ storedAgentKeys' =
                 storedAgentKeys \cup {<<item.Link, resource.ParserT, resource.Agents>>}
       ELSE UNCHANGED <<agent_cache, storedAgentKeys>>
    /\ did' = [did EXCEPT !.agentSet = (fault = "none"),
                          !.faults = Failed(@, "SetAgentOutput", fault)]
    /\ pc' = "page"
    /\ ev' = [ op |-> "cacheAgentOutput" ]
    /\ UNCHANGED <<parser_cache, clock, clientVars, retryVars, probeVars, callerVars, conf, agents, feeds, iRes, jItem, content,
                   agentIdx, errs, pages, ctxDone, runs, parsedKeys, storedKeys>>

\* the item's page is appended to its resource
AppendPage ==
    /\ pc = "page"
    /\ pages' = [pages EXCEPT ![iRes] = Append(@, [ Link |-> item.Link, Content |-> content ])]
    /\ ev' = [ op |-> "page", at |-> iRes, link |-> item.Link ]
    /\ NextItem
    /\ UNCHANGED <<cacheVars, clientVars, retryVars, probeVars, callerVars, conf, agents, feeds, content, agentIdx, errs,
                   ctxDone, runs, did, parsedKeys, storedKeys, storedAgentKeys>>

\* mutant: the resources are collected from the last index to the first
RECURSIVE NewsletterResources_Reversed(_, _)
NewsletterResources_Reversed(pgs, k) ==
    IF k > Len(pgs) THEN <<>>
    ELSE NewsletterResources_Reversed(pgs, k + 1)
         \o (IF Len(pgs[k]) > 0 THEN << [ at |-> k, Pages |-> pgs[k] ] >> ELSE <<>>)

\* Newsletter.Resources: the resources that have pages, in configuration order
RECURSIVE NewsletterResources(_, _)
NewsletterResources(pgs, k) ==
    IF k > Len(pgs) THEN <<>>
    ELSE (IF Len(pgs[k]) > 0 THEN << [ at |-> k, Pages |-> pgs[k] ] >> ELSE <<>>)
         \o NewsletterResources(pgs, k + 1)

\* end of the feed loop: the newsletter is rendered and the process ends
Render ==
    /\ pc = "feed"
    /\ iRes > Len(feeds)
    /\ Exit([ op |-> "render", Resources |-> NewsletterResources(pages, 1),
              errs |-> errs ])
    /\ UNCHANGED <<cacheVars, clientVars, retryVars, probeVars, callerVars, runs, parsedKeys, storedKeys, storedAgentKeys>>

----------------------------------------------------------------------------
(* time.ParseDuration; a duration is a number of milliseconds              *)

Millisecond == 1
Second == 1000 * Millisecond

\* the units of time.ParseDuration that are whole milliseconds
UnitMillis(unit) ==
    IF unit = <<"m", "s">> THEN Millisecond
    ELSE IF unit = <<"s">> THEN Second
    ELSE IF unit = <<"m">> THEN 60 * Second
    ELSE IF unit = <<"h">> THEN 3600 * Second
    ELSE 0

NoDuration == [ ok |-> FALSE, d |-> 0 ]

\* the number of leading characters of str that are neither a digit nor a dot
RECURSIVE LeadingUnit(_)
LeadingUnit(str) ==
    IF str = <<>> THEN 0
    ELSE IF Head(str) = "." \/ IsDigit(Head(str)) THEN 0
    ELSE 1 + LeadingUnit(Tail(str))

\* ([0-9]*(\.[0-9]*)?[a-z]+)+
RECURSIVE ParseGroups(_)
ParseGroups(str) ==
    IF str = <<>> THEN [ ok |-> TRUE, d |-> 0 ]
    ELSE LET pl == LeadingIn(str, Digits)
             r1 == Drop(str, pl)
             hasDot == r1 # <<>> /\ Head(r1) = "."
             r2 == IF hasDot THEN Tail(r1) ELSE r1
             fl == IF hasDot THEN LeadingIn(r2, Digits) ELSE 0
             r3 == Drop(r2, fl)
             ul == LeadingUnit(r3)
             unit == SubSeq(r3, 1, ul)
             whole == DecimalValue(SubSeq(str, 1, pl))
             millis == FractionMillis(SubSeq(r2, 1, fl))
         IN  IF pl + fl = 0 THEN NoDuration
             ELSE IF ul = 0 THEN NoDuration
             ELSE IF UnitMillis(unit) = 0 THEN NoDuration
             ELSE LET rest == ParseGroups(Drop(r3, ul))
                  IN  IF ~rest.ok THEN NoDuration
                      ELSE [ ok |-> TRUE,
                             d |-> whole * UnitMillis(unit)
                                   + (millis * UnitMillis(unit)) \div 1000 + rest.d ]

\* time.ParseDuration: (duration, ok)
ParseDuration(str) ==
    IF str = <<>> THEN NoDuration
    ELSE IF str = <<"0">> THEN [ ok |-> TRUE, d |-> 0 ]
    ELSE IF Head(str) = "+" THEN (IF Len(str) = 1 THEN NoDuration ELSE ParseGroups(Tail(str)))
    ELSE IF Head(str) = "-"
    THEN (IF Len(str) = 1 THEN NoDuration
          ELSE LET p == ParseGroups(Tail(str)) IN [ ok |-> p.ok, d |-> 0 - p.d ])
    ELSE ParseGroups(str)

----------------------------------------------------------------------------
(* The retry wrapper: error classification                                 *)

\* "Error 429 Status: RESOURCE_EXHAUSTED"
ErrQuota ==
    <<"E", "r", "r", "o", "r", " ", "4", "2", "9", " ", "S", "t", "a", "t",
      "u", "s", ":", " ", "R", "E", "S", "O", "U", "R", "C", "E", "_", "E",
      "X", "H", "A", "U", "S", "T", "E", "D">>
\* "Error 429 retryDelay:2s"
ErrQuotaDelay ==
    <<"E", "r", "r", "o", "r", " ", "4", "2", "9", " ", "r", "e", "t", "r",
      "y", "D", "e", "l", "a", "y", ":", "2", "s">>
\* "invalid argument"
ErrInvalid ==
    <<"i", "n", "v", "a", "l", "i", "d", " ", "a", "r", "g", "u", "m", "e",
      "n", "t">>

\* the errors the underlying agent may return
Errors == {ErrQuota, ErrQuotaDelay, ErrInvalid}

retryablePatterns ==
    { <<"R", "E", "S", "O", "U", "R", "C", "E", "_", "E", "X", "H", "A", "U",
        "S", "T", "E", "D">>,
      <<"q", "u", "o", "t", "a", " ", "e", "x", "c", "e", "e", "d", "e", "d">>,
      <<"r", "a", "t", "e", " ", "l", "i", "m", "i", "t">>,
      <<"4", "2", "9">>, <<"5", "0", "3">>, <<"5", "0", "0">> }

isRetryable(err) ==
    /\ err # NilError
    /\ \E pattern \in retryablePatterns : Contains(ToLower(err), ToLower(pattern))

\* "retry in " and "retryDelay:"
RetryInMarker == <<"r", "e", "t", "r", "y", " ", "i", "n", " ">>
RetryDelayMarker == <<"r", "e", "t", "r", "y", "D", "e", "l", "a", "y", ":">>

\* the duration that follows the first occurrence of marker, made of the
\* characters in allowed: (duration, found)
DelayAfter(errStr, marker, allowed) ==
    LET idx == Index(errStr, marker)
        start == idx + Len(marker)
        end == start + LeadingIn(Drop(errStr, start), allowed)
        duration == ParseDuration(SubSeq(errStr, start + 1, end))
    IN  IF idx = -1 THEN NoDuration
        ELSE IF end > start /\ duration.ok THEN duration
        ELSE NoDuration

extractRetryDelay(err) ==
    LET retryIn == DelayAfter(err, RetryInMarker, Digits \cup {".", "s"})
        retryDelay == DelayAfter(err, RetryDelayMarker, Digits \cup {"s"})
    IN  IF err = NilError THEN 0
        ELSE IF retryIn.ok THEN retryIn.d
        ELSE IF retryDelay.ok THEN retryDelay.d
        ELSE 0

----------------------------------------------------------------------------
(* The retry wrapper: retryAgent.Process                                   *)

RetriesBound == 2

Min(a, b) == IF a < b THEN a ELSE b

RECURSIVE Pow2(_)
Pow2(n) == IF n = 0 THEN 1 ELSE 2 * Pow2(n - 1)

\* the configurations WithRetry is given
RetryConfigs ==
    [ MaxRetries : 0..RetriesBound, InitialBackoff : {1 * Second},
      MaxBackoff : {3 * Second}, Timeout : {4 * Second, 60 * Second} ]

\* what one call of the underlying agent does: it returns its output, or an error
UnderlyingResults == {NilError} \cup Errors

\* what the underlying agent does call after call
Scripts == [ 1..(RetriesBound + 1) -> UnderlyingResults ]

\* how long one call of the underlying agent takes
CallTime == 1 * Second

\* the content Process is given, and the underlying agent's output for it
RetryInput == Text("d1", <<>>)
UnderlyingOutput == ProcessedContent(RetryInput, Summary)

NoResult == [ output |-> NoContent, err |-> "pending", wraps |-> NilError ]
Returned(output, err, wraps) == [ output |-> output, err |-> err, wraps |-> wraps ]

\* ctx.Done() is readable: the caller cancelled or the overall deadline passed
CtxDone == cancelled \/ elapsed >= deadline

\* context.Canceled and context.DeadlineExceeded
ErrCanceled == <<"context canceled">>
ErrDeadlineExceeded == <<"context deadline exceeded">>

\* ctx.Err() of the context with the overall timeout: what made it done first
CtxErr(isCancelled, time) ==
    IF isCancelled THEN ErrCanceled
    ELSE IF time >= deadline THEN ErrDeadlineExceeded
    ELSE NilError

\* the backoff sleep after a retryable failure of the given attempt
SleepDuration(config, attemptNo, err) ==
    LET exponential == Min(config.InitialBackoff * Pow2(attemptNo), config.MaxBackoff)
        suggestedDelay == extractRetryDelay(err)
    IN  IF suggestedDelay > 0
        THEN Min(suggestedDelay, config.MaxBackoff)
        ELSE exponential

\* mutant: the wrapper gives up one attempt early
IsLastAttempt_OneEarly(config, attemptNo) == attemptNo + 1 >= config.MaxRetries

\* mutant: no attempt is the last one
IsLastAttempt_Never(config, attemptNo) == FALSE

\* `attempt == r.config.MaxRetries`: no sleep follows the last attempt
IsLastAttempt(config, attemptNo) == attemptNo = config.MaxRetries

\* mutant: a failure is retried whatever its error
AfterFailure_AlwaysRetried(config, attemptNo, err) ==
    IF IsLastAttempt(config, attemptNo) THEN "exhausted" ELSE "backoff"

\* mutant: a sleep follows the last attempt too
AfterFailure_SleepsAfterLast(config, attemptNo, err) ==
    IF ~isRetryable(err) THEN "return" ELSE "backoff"

\* what follows a failed attempt: return at once, leave the loop, or sleep
AfterFailure(config, attemptNo, err) ==
    IF ~isRetryable(err) THEN "return"
    ELSE IF IsLastAttempt(config, attemptNo) THEN "exhausted"
    ELSE "backoff"

\* a caller calls Process on a retry agent
RetryProcess(config, underlying) ==
    /\ rpc = "idle"
    /\ rcfg' = config
    /\ script' = underlying
    /\ elapsed' = 0
    /\ deadline' = config.Timeout
    /\ cancelled' = FALSE
    /\ attempt' = 0
    /\ calls' = 0
    /\ sleeps' = 0
    /\ sleepDuration' = 0
    /\ lastErr' = NilError
    /\ result' = NoResult
    /\ rpc' = IF 0 <= config.MaxRetries THEN "attempt" ELSE "exhausted"
    /\ UNCHANGED <<cacheVars, clientVars, mainVars, probeVars, callerVars>>

\* the caller's context is cancelled, the deadline not yet reached
RetryCancel ==
    /\ rpc \in {"attempt", "backoff"}
    /\ ~cancelled
    /\ elapsed < deadline
    /\ cancelled' = TRUE
    /\ UNCHANGED <<rpc, rcfg, script, elapsed, deadline, attempt, calls, sleeps, sleepDuration,
                   lastErr, result>>
    /\ UNCHANGED <<cacheVars, clientVars, mainVars, probeVars, callerVars>>

\* head of the loop: the context is already done
RetryTimedOut ==
    /\ rpc = "attempt"
    /\ CtxDone
    /\ result' = Returned(NoContent, "operation timed out", CtxErr(cancelled, elapsed))
    /\ rpc' = "done"
    /\ UNCHANGED <<rcfg, script, elapsed, deadline, cancelled, attempt, calls, sleeps,
                   sleepDuration, lastErr>>
    /\ UNCHANGED <<cacheVars, clientVars, mainVars, probeVars, callerVars>>

\* one attempt: the underlying agent is called, its result decides what
\* follows; the caller may cancel while the call is under way
RetryAttempt(cancelDuring) ==
    /\ rpc = "attempt"
    /\ ~CtxDone
    /\ cancelled' = cancelDuring
    /\ LET err == script[calls + 1]
       IN  /\ calls' = calls + 1
           /\ elapsed' = elapsed + CallTime
           /\ IF err = NilError
              THEN /\ result' = Returned(UnderlyingOutput, "nil", NilError)
                   /\ rpc' = "done"
                   /\ UNCHANGED <<lastErr, sleepDuration>>
              ELSE /\ lastErr' = err
                   /\ IF AfterFailure(rcfg, attempt, err) = "return"
                      THEN /\ result' = Returned(NoContent, "non-retryable error", err)
                           /\ rpc' = "done"
                           /\ UNCHANGED sleepDuration
                      ELSE IF AfterFailure(rcfg, attempt, err) = "exhausted"
                      THEN /\ rpc' = "exhausted"
                           /\ UNCHANGED <<result, sleepDuration>>
                      ELSE /\ sleepDuration' = SleepDuration(rcfg, attempt, err)
                           /\ rpc' = "backoff"
                           /\ UNCHANGED result
    /\ UNCHANGED <<rcfg, script, deadline, attempt, sleeps>>
    /\ UNCHANGED <<cacheVars, clientVars, mainVars, probeVars, callerVars>>

\* mutant: the timer is taken although the caller has cancelled
BackoffTimerFirst_IgnoresCancel == elapsed + sleepDuration <= deadline

\* the timer of the backoff select fires no later than ctx.Done() is readable
BackoffTimerFirst == ~cancelled /\ elapsed + sleepDuration <= deadline

\* the backoff select takes ctx.Done(): the caller cancelled, or the deadline
\* comes no later than the timer
RetryBackoffCancelled ==
    /\ rpc = "backoff"
    /\ cancelled \/ deadline <= elapsed + sleepDuration
    /\ elapsed' = IF cancelled \/ deadline <= elapsed THEN elapsed ELSE deadline
    /\ result' = Returned(NoContent, "operation cancelled during backoff",
                          CtxErr(cancelled, elapsed'))
    /\ rpc' = "done"
    /\ UNCHANGED <<rcfg, script, deadline, cancelled, attempt, calls, sleeps, sleepDuration,
                   lastErr>>
    /\ UNCHANGED <<cacheVars, clientVars, mainVars, probeVars, callerVars>>

\* the backoff select takes the timer: the next attempt follows
RetryBackoffElapsed ==
    /\ rpc = "backoff"
    /\ BackoffTimerFirst
    /\ elapsed' = elapsed + sleepDuration
    /\ sleeps' = sleeps + 1
    /\ attempt' = attempt + 1
    /\ rpc' = IF attempt + 1 <= rcfg.MaxRetries THEN "attempt" ELSE "exhausted"
    /\ UNCHANGED <<rcfg, script, deadline, cancelled, calls, sleepDuration, lastErr, result>>
    /\ UNCHANGED <<cacheVars, clientVars, mainVars, probeVars, callerVars>>

\* after the loop
RetryExhausted ==
    /\ rpc = "exhausted"
    /\ result' = Returned(NoContent, "max retries exceeded", lastErr)
    /\ rpc' = "done"
    /\ UNCHANGED <<rcfg, script, elapsed, deadline, cancelled, attempt, calls, sleeps,
                   sleepDuration, lastErr>>
    /\ UNCHANGED <<cacheVars, clientVars, mainVars, probeVars, callerVars>>

\* the caller has the result; the call's locals are gone, the wrapper is as
\* it was before the call
RetryReturn ==
    /\ rpc = "done"
    /\ rpc' = "idle"
    /\ script' = <<>>
    /\ elapsed' = 0
    /\ deadline' = 0
    /\ cancelled' = FALSE
    /\ attempt' = 0
    /\ calls' = 0
    /\ sleeps' = 0
    /\ sleepDuration' = 0
    /\ lastErr' = NilError
    /\ result' = NoResult
    /\ UNCHANGED rcfg
    /\ UNCHANGED <<cacheVars, clientVars, mainVars, probeVars, callerVars>>

----------------------------------------------------------------------------
(* retryAgent: further calls of Process on one wrapper, one after the      *)
(* other and at the same time (SpecReuse)                                  *)

\* the wrappers that are called again: all retries, a short and a long Timeout
ReuseConfigs == { config \in RetryConfigs : config.MaxRetries = RetriesBound }

\* what the underlying agent does in a further call: it fails alike a number
\* of times, then succeeds
ReuseScripts ==
    { [ n \in 1..(RetriesBound + 1) |-> IF n <= k THEN err ELSE NilError ] :
        err \in {ErrQuota, ErrInvalid}, k \in 0..(RetriesBound + 1) }

\* no second call is in progress
NoOther ==
    [ rpc |-> "idle", attempt |-> 0, calls |-> 0, sleeps |-> 0, elapsed |-> 0, deadline |-> 0,
      sleepDuration |-> 0, err |-> "pending" ]

\* mutant: the attempt counter is a field of the wrapper, left as the last
\* call had it
FirstAttempt_Carried(last) == last

\* `attempt := 0`: the counter is a local of the call
FirstAttempt(last) == 0

\* Process is called on the wrapper of the call that has just returned; what
\* the locals of that call held is of no account
RetryProcessAgain(underlying) ==
    /\ rpc = "done"
    /\ earlier' = result.err
    /\ script' = underlying
    /\ elapsed' = 0
    /\ deadline' = rcfg.Timeout
    /\ cancelled' = FALSE
    /\ attempt' = FirstAttempt(attempt)
    /\ calls' = 0
    /\ sleeps' = 0
    /\ sleepDuration' = 0
    /\ lastErr' = NilError
    /\ result' = NoResult
    /\ rpc' = IF FirstAttempt(attempt) <= rcfg.MaxRetries THEN "attempt" ELSE "exhausted"
    /\ UNCHANGED <<rcfg, getting, other>>
    /\ UNCHANGED <<cacheVars, clientVars, mainVars, probeVars>>

\* a second caller calls Process on the wrapper while a call is in progress
ConcurrentProcess ==
    /\ rpc \in {"attempt", "backoff"}
    /\ other.rpc = "idle"
    /\ other' = [ NoOther EXCEPT
                    !.rpc = IF FirstAttempt(attempt) <= rcfg.MaxRetries THEN "attempt"
                            ELSE "exhausted",
                    !.attempt = FirstAttempt(attempt),
                    !.deadline = rcfg.Timeout ]
    /\ UNCHANGED <<getting, earlier>>
    /\ UNCHANGED <<cacheVars, clientVars, mainVars, retryVars, probeVars>>

\* sleepDuration after a failure whose message suggests no delay
ExponentialBackoff(config, attemptNo) ==
    Min(config.InitialBackoff * Pow2(attemptNo), config.MaxBackoff)

\* the locals of a call after the head of its loop and one attempt that
\* returned err, an error whose message suggests no delay
AfterAttempt(call, config, err) ==
    LET called == [ call EXCEPT !.calls = call.calls + 1, !.elapsed = call.elapsed + CallTime ]
        after == IF err = NilError THEN "nil" ELSE AfterFailure(config, call.attempt, err)
    IN  IF call.elapsed >= call.deadline
        THEN [ call EXCEPT !.rpc = "done", !.err = "operation timed out" ]
        ELSE IF after = "nil" THEN [ called EXCEPT !.rpc = "done", !.err = "nil" ]
        ELSE IF after = "return"
        THEN [ called EXCEPT !.rpc = "done", !.err = "non-retryable error" ]
        ELSE IF after = "exhausted" THEN [ called EXCEPT !.rpc = "exhausted" ]
        ELSE [ called EXCEPT !.rpc = "backoff",
                             !.sleepDuration = ExponentialBackoff(config, call.attempt) ]

\* the second call: head of the loop with its context done, or one attempt
ConcurrentAttempt(err) ==
    /\ other.rpc = "attempt"
    /\ other' = AfterAttempt(other, rcfg, err)
    /\ UNCHANGED <<getting, earlier>>
    /\ UNCHANGED <<cacheVars, clientVars, mainVars, retryVars, probeVars>>

\* the second call: the backoff select, then the next attempt
ConcurrentBackoff ==
    /\ other.rpc = "backoff"
    /\ other' =
          IF other.elapsed + other.sleepDuration <= other.deadline
          THEN [ other EXCEPT !.elapsed = @ + other.sleepDuration, !.sleeps = @ + 1,
                              !.attempt = @ + 1,
                              !.rpc = IF other.attempt + 1 <= rcfg.MaxRetries THEN "attempt"
                                      ELSE "exhausted" ]
          ELSE [ other EXCEPT !.elapsed = other.deadline, !.rpc = "done",
                              !.err = "operation cancelled during backoff" ]
    /\ UNCHANGED <<getting, earlier>>
    /\ UNCHANGED <<cacheVars, clientVars, mainVars, retryVars, probeVars>>

\* the second call: after the loop
ConcurrentExhausted ==
    /\ other.rpc = "exhausted"
    /\ other' = [ other EXCEPT !.rpc = "done", !.err = "max retries exceeded" ]
    /\ UNCHANGED <<getting, earlier>>
    /\ UNCHANGED <<cacheVars, clientVars, mainVars, retryVars, probeVars>>

\* the second call has returned
ConcurrentReturn ==
    /\ other.rpc = "done"
    /\ other' = NoOther
    /\ UNCHANGED <<getting, earlier>>
    /\ UNCHANGED <<cacheVars, clientVars, mainVars, retryVars, probeVars>>

----------------------------------------------------------------------------

(* isRetryable, extractRetryDelay and the backoff computation, called on   *)
(* error messages (SpecBackoff)                                            *)

\* an error message that may carry a delay: head, marker, number, unit, tail
\* a number is given as it is written and by its value in thousandths
DelayMessages ==
    [ head : { <<"4", "2", "9", " ">>, <<"4", "2", "9", ".", " ", "P", "l", "e", "a", "s", "e", " ">> },
      marker : { <<>>, RetryInMarker, RetryDelayMarker },
      number :
        { [ text |-> <<>>, thousandths |-> 0 ],
          [ text |-> <<"0">>, thousandths |-> 0 ],
          [ text |-> <<"2">>, thousandths |-> 2000 ],
          [ text |-> <<"1", "2">>, thousandths |-> 12000 ],
          [ text |-> <<"1", ".", "5">>, thousandths |-> 1500 ] },
      unit : { <<>>, <<"s">>, <<"m", "s">> },
      tail : { <<>>, <<".">>, <<",", " ", "t", "h", "e", "n">> } ]

\* err.Error() of an error with that message
MessageText(parts) ==
    parts.head \o parts.marker \o parts.number.text \o parts.unit \o parts.tail

\* an error message around a word: head, word, tail
WordMessages ==
    { head \o word \o tail :
        head \in { <<>>, <<"E", "r", "r", "o", "r", ":", " ">> },
        word \in
          { <<>>,
            <<"R", "E", "S", "O", "U", "R", "C", "E", "_", "E", "X", "H", "A", "U",
              "S", "T", "E", "D">>,
            <<"r", "e", "s", "o", "u", "r", "c", "e", "_", "e", "x", "h", "a", "u",
              "s", "t", "e", "d">>,
            <<"R", "e", "s", "o", "u", "r", "c", "e", "_", "E", "x", "h", "a", "u",
              "s", "t", "e", "d">>,
            <<"r", "e", "s", "o", "u", "r", "c", "e", " ", "e", "x", "h", "a", "u",
              "s", "t", "e", "d">>,
            <<"q", "u", "o", "t", "a", " ", "e", "x", "c", "e", "e", "d", "e", "d">>,
            <<"Q", "u", "o", "t", "a", " ", "E", "x", "c", "e", "e", "d", "e", "d">>,
            <<"Q", "U", "O", "T", "A", " ", "E", "X", "C", "E", "E", "D", "E", "D">>,
            <<"q", "u", "o", "t", "a">>,
            <<"r", "a", "t", "e", " ", "l", "i", "m", "i", "t">>,
            <<"R", "a", "t", "e", " ", "L", "i", "m", "i", "t">>,
            <<"r", "a", "t", "e", "-", "l", "i", "m", "i", "t">>,
            <<"4", "2", "9">>, <<"5", "0", "3">>, <<"5", "0", "0">>, <<"4", "0", "4">>, <<"5", "0", "0", "0">>,
            <<"4", "2", " ", "9">>,
            <<"i", "n", "v", "a", "l", "i", "d", " ", "a", "r", "g", "u", "m", "e",
              "n", "t">> },
        tail \in { <<>>, <<" ", "(", "c", "o", "d", "e", " ", "7", ")">> } }

AttemptNumbers == 0..RetriesBound

NoProbe ==
    [ op |-> "none", err |-> NilError, parts |-> <<>>, config |-> <<>>, attemptNo |-> 0,
      retryable |-> FALSE, delay |-> 0, sleep |-> 0 ]

\* isRetryable(err)
Classify(err) ==
    /\ probe.op = "none"
    /\ probe' = [ NoProbe EXCEPT !.op = "isRetryable", !.err = err,
                                 !.retryable = isRetryable(err) ]
    /\ UNCHANGED <<cacheVars, clientVars, mainVars, retryVars, callerVars>>

\* extractRetryDelay(err)
ExtractDelay(parts) ==
    /\ probe.op = "none"
    /\ probe' = [ NoProbe EXCEPT !.op = "extractRetryDelay", !.err = MessageText(parts),
                                 !.parts = parts,
                                 !.delay = extractRetryDelay(MessageText(parts)) ]
    /\ UNCHANGED <<cacheVars, clientVars, mainVars, retryVars, callerVars>>

\* the backoff computation of retryAgent.Process after attempt attemptNo failed
\* with a retryable error of that message
ComputeSleep(config, attemptNo, parts) ==
    /\ probe.op = "none"
    /\ isRetryable(MessageText(parts))
    /\ probe' = [ NoProbe EXCEPT !.op = "sleepDuration", !.err = MessageText(parts),
                                 !.parts = parts, !.config = config,
                                 !.attemptNo = attemptNo,
                                 !.sleep = SleepDuration(config, attemptNo, MessageText(parts)) ]
    /\ UNCHANGED <<cacheVars, clientVars, mainVars, retryVars, callerVars>>

\* a Duration is an int64 of nanoseconds; here it is an integer of
\* DurationBits bits of milliseconds, so that the products stay small
DurationBits == 20
minDuration == 0 - Pow2(DurationBits - 1)
maxDuration == Pow2(DurationBits - 1) - 1

\* late attempts: InitialBackoff * 2^attempt leaves the range of a Duration
LastAttemptNo == 12
LateAttemptNumbers == 0..LastAttemptNo

\* what the conversion of a float64 outside the range of int64 gives is left
\* to the implementation: the integer indefinite value (the smallest int64) on
\* amd64, the nearest int64 on arm64
Conversions == {"indefinite", "saturating"}

\* time.Duration(x) of a float64 x that is a whole number
ToDuration(x, conversion) ==
    IF minDuration <= x /\ x <= maxDuration THEN x
    ELSE IF conversion = "indefinite" THEN minDuration
    ELSE IF x > maxDuration THEN maxDuration ELSE minDuration

\* sleepDuration as Process computes it in the width of a Duration
WideSleepDuration(config, attemptNo, err, conversion) ==
    LET exponential == ToDuration(config.InitialBackoff * Pow2(attemptNo), conversion)
        capped == IF exponential > config.MaxBackoff THEN config.MaxBackoff ELSE exponential
        suggestedDelay == extractRetryDelay(err)
    IN  IF suggestedDelay > 0
        THEN IF suggestedDelay > config.MaxBackoff THEN config.MaxBackoff ELSE suggestedDelay
        ELSE capped

\* configurations with 0 < InitialBackoff <= MaxBackoff and many retries
WideConfigs ==
    { config \in [ MaxRetries : {LastAttemptNo + 1},
                   InitialBackoff : {1 * Millisecond, 500 * Millisecond, 1 * Second},
                   MaxBackoff : {1 * Second, 3 * Second, 30 * Second},
                   Timeout : {60 * Second} ] :
        0 < config.InitialBackoff /\ config.InitialBackoff <= config.MaxBackoff }

\* the backoff computation after a late attempt failed with a retryable error
ComputeWideSleep(config, attemptNo, err, conversion) ==
    /\ probe.op = "none"
    /\ isRetryable(err)
    /\ attemptNo < config.MaxRetries
    /\ probe' = [ NoProbe EXCEPT !.op = "wideSleepDuration", !.err = err, !.config = config,
                                 !.attemptNo = attemptNo,
                                 !.delay = extractRetryDelay(err),
                                 !.parts = conversion,
                                 !.sleep = WideSleepDuration(config, attemptNo, err, conversion) ]
    /\ UNCHANGED <<cacheVars, clientVars, mainVars, retryVars, callerVars>>

\* the caller has the value
BackoffReturn ==
    /\ probe.op # "none"
    /\ probe' = NoProbe
    /\ UNCHANGED <<cacheVars, clientVars, mainVars, retryVars, callerVars>>

----------------------------------------------------------------------------
(* SerializeParserResponse and DeserializeParserResponse, called on        *)
(* responses and bytes (SpecSerial)                                        *)

\* the parser kinds of parser.go
ParserKinds == {"web", "telegram", "torrent", "youtube"}

\* responses of one serializable type; web.Response is an opaque record
Responses(type) ==
    CASE type = "web" -> { Response("web", [ web |-> d ]) : d \in ParsedData }
      [] type = "telegram" ->
            { Response("telegram", TelegramData(h)) : h \in {"", "d1", InvalidUTF8} }
      [] type = "youtube" ->
            { Response("youtube", Transcription(t, "en", segs)) :
                t \in {"d1", InvalidUTF8},
                segs \in { NilSegments, Segments(<<>>),
                           Segments(<< Segment("0", "90.5", "d2") >>),
                           Segments(<< Segment("0", "1", "d1"), Segment(NaN, "2", "d2") >>) } }

\* bytes a row of the parser cache may hold: what SerializeParserResponse
\* wrote for a type, the same under the tag of another kind, and no JSON
CachedBytes(type) ==
    LET written == { SerializeParserResponse(type, r).bytes : r \in Responses(type) } \ {NilBytes}
    IN  { <<k, b[2]>> : k \in ParserKinds, b \in written } \cup {NilBytes}

Serialize(parserType, resp) ==
    /\ probe.op = "none"
    /\ probe' = [ op |-> "SerializeParserResponse", parserType |-> parserType, resp |-> resp,
                  res |-> SerializeParserResponse(parserType, resp) ]
    /\ UNCHANGED <<cacheVars, clientVars, mainVars, retryVars, callerVars>>

Deserialize(parserType, data) ==
    /\ probe.op = "none"
    /\ probe' = [ op |-> "DeserializeParserResponse", parserType |-> parserType,
                  data |-> data, res |-> DeserializeParserResponse(parserType, data) ]
    /\ UNCHANGED <<cacheVars, clientVars, mainVars, retryVars, callerVars>>

----------------------------------------------------------------------------
----------------------------------------------------------------------------
(* cache: GetParserOutput of a second caller of the same database, one     *)
(* statement at a time (SpecConcurrent)                                    *)

\* no call of the second caller is in progress
NoGet == [ at |-> "idle", url |-> "", parser_type |-> "", accessedAt |-> 0, found |-> FALSE ]

\* accessedAt := time.Now().Unix()
ReadClock(url, parserType, now) ==
    /\ getting.at \in {"idle", "returned"}
    /\ now >= clock
    /\ clock' = now
    /\ getting' = [ at |-> "clock", url |-> url, parser_type |-> parserType,
                    accessedAt |-> now, found |-> FALSE ]
    /\ UNCHANGED <<parser_cache, agent_cache, clientVars, mainVars, retryVars, probeVars, other,
                   earlier>>

\* c.db.QueryRow(...).Scan(&output): sql.ErrNoRows returns a miss
QueryRow ==
    /\ getting.at = "clock"
    /\ getting' = IF SelectParserOutput(parser_cache, getting.url, getting.parser_type) = {}
                  THEN [ getting EXCEPT !.at = "returned" ]
                  ELSE [ getting EXCEPT !.at = "row", !.found = TRUE ]
    /\ UNCHANGED <<cacheVars, clientVars, mainVars, retryVars, probeVars, other, earlier>>

\* the accessed_at the UPDATE writes: the time read before the SELECT
ExecUpdateTime(call, now) == call.accessedAt

\* c.db.Exec("UPDATE parser_cache SET accessed_at = ? ..."), then return
ExecUpdate ==
    /\ getting.at = "row"
    /\ parser_cache' = UpdateParserAccessTime(parser_cache, ExecUpdateTime(getting, clock),
                                              getting.url, getting.parser_type)
    /\ getting' = [ getting EXCEPT !.at = "returned" ]
    /\ UNCHANGED <<agent_cache, clock, clientVars, mainVars, retryVars, probeVars, other,
                   earlier>>

vars == <<cacheVars, clientVars, mainVars, retryVars, probeVars, callerVars>>

Init ==
    /\ parser_cache = EmptyBag
    /\ agent_cache = EmptyBag
    /\ clock = 1
    /\ ret = NoCall
    /\ lastParserSet = [ k \in URLs \X ParserTypes |-> NilBytes ]
    /\ lastAgentSet = [ k \in URLs \X ParserTypes \X PipelineKeys |-> NoSet ]
    /\ nwrites = 0
    /\ pc = "idle"
    /\ conf = <<>>
    /\ agents = <<>>
    /\ feeds = <<>>
    /\ iRes = 0
    /\ jItem = 0
    /\ content = NoContent
    /\ agentIdx = 0
    /\ errs = <<>>
    /\ pages = <<>>
    /\ ctxDone = FALSE
    /\ runs = 0
    /\ ev = [ op |-> "none" ]
    /\ did = NothingDone
    /\ parsedKeys = {}
    /\ storedKeys = {}
    /\ storedAgentKeys = {}
    /\ rpc = "idle"
    /\ rcfg = [ MaxRetries |-> 0, InitialBackoff |-> 1, MaxBackoff |-> 1, Timeout |-> 1 ]
    /\ script = <<>>
    /\ elapsed = 0
    /\ deadline = 0
    /\ cancelled = FALSE
    /\ attempt = 0
    /\ calls = 0
    /\ sleeps = 0
    /\ sleepDuration = 0
    /\ lastErr = NilError
    /\ result = NoResult
    /\ probe = NoProbe
    /\ getting = NoGet
    /\ other = NoOther
    /\ earlier = "none"

\* the database works and the calls are made within one second
NextCache ==
    \/ \E u \in URLs, k \in ParserTypes : GetParserOutput(u, k, clock, "none")
    \/ \E u \in URLs, k \in ParserTypes, v \in Payloads : SetParserOutput(u, k, v, clock, "none")
    \/ \E u \in URLs, k \in ParserTypes, a \in Pipelines : GetAgentOutput(u, k, a, clock, "none")
    \/ \E u \in URLs, k \in ParserTypes, a \in Pipelines, t \in Texts :
          SetAgentOutput(u, k, a, t, clock, "none")
    \/ Clear("none")
    \/ Stats("none")

SpecCache == Init /\ [][NextCache]_vars

\* time.Now().Unix() read by a call: the second of the last call or a later one
Now == { t \in clock..(clock + 1) : t <= MaxClock }

\* statements of the database may fail and time passes between the calls
NextStore ==
    \/ \E u \in StoreURLs, k \in ParserTypes, now \in Now, fault \in GetFaults :
          GetParserOutput(u, k, now, fault)
    \/ \E u \in StoreURLs, k \in ParserTypes, v \in StorePayloads, now \in Now,
          fault \in SetFaults : SetParserOutput(u, k, v, now, fault)
    \/ \E u \in StoreURLs, k \in ParserTypes, a \in StorePipelines, now \in Now,
          fault \in GetFaults : GetAgentOutput(u, k, a, now, fault)
    \/ \E u \in StoreURLs, k \in ParserTypes, a \in StorePipelines, t \in StoreTexts,
          now \in Now, fault \in SetFaults : SetAgentOutput(u, k, a, t, now, fault)
    \/ \E fault \in ClearFaults : Clear(fault)
    \/ \E fault \in StatsFaults : Stats(fault)

SpecStore == Init /\ [][NextStore]_vars

\* two callers of one database: the calls of the first are whole, the
\* GetParserOutput of the second goes statement by statement between them
NextConcurrent ==
    \/ \E u \in StoreURLs, k \in ParserTypes, now \in Now : GetParserOutput(u, k, now, "none")
    \/ \E u \in StoreURLs, k \in ParserTypes, v \in Payloads, now \in Now :
          SetParserOutput(u, k, v, now, "none")
    \/ Clear("none")
    \/ \E u \in StoreURLs, k \in ParserTypes, now \in Now : ReadClock(u, k, now)
    \/ QueryRow
    \/ ExecUpdate

SpecConcurrent == Init /\ [][NextConcurrent]_vars

Next ==
    \/ \E cfg \in Configs : StartClean(cfg, "none")
    \/ \E cfg \in Configs, credsValid \in BOOLEAN : StartFatal(cfg, credsValid)
    \/ \E cfg \in Configs, credsValid \in BOOLEAN : Start(cfg, credsValid)
    \/ Interrupt
    \/ Interrupted
    \/ FetchSkip
    \/ \E items \in FeedItems : Fetch(items)
    \/ FetchFail
    \/ FetchDone
    \/ FeedBegin
    \/ ItemBegin("none")
    \/ ParserLookup("none")
    \/ \E data \in ParsedData : Parse(data, "none")
    \/ ParseFail
    \/ \E outcome \in AgentOutcomes : AgentCall(outcome)
    \/ CacheAgentOutput("none")
    \/ AppendPage
    \/ Render

Spec == Init /\ [][Next]_vars

\* main on a cache database whose statements may fail and whose rows may hold
\* bytes of another parser kind
NextFaults ==
    \/ \E cfg \in FaultConfigs, fault \in ClearFaults : StartClean(cfg, fault)
    \/ \E cfg \in FaultConfigs, credsValid \in BOOLEAN : StartFatal(cfg, credsValid)
    \/ \E cfg \in FaultConfigs, credsValid \in BOOLEAN : Start(cfg, credsValid)
    \/ Interrupt
    \/ Interrupted
    \/ FetchSkip
    \/ \E items \in FaultFeedItems : Fetch(items)
    \/ FetchFail
    \/ FetchDone
    \/ FeedBegin
    \/ \E fault \in GetFaults : ItemBegin(fault)
    \/ \E fault \in GetFaults \cup {"mismatch"} : ParserLookup(fault)
    \/ \E data \in FaultParsedData, fault \in SetFaults : Parse(data, fault)
    \/ ParseFail
    \/ \E outcome \in AgentOutcomes : AgentCall(outcome)
    \/ \E fault \in SetFaults : CacheAgentOutput(fault)
    \/ AppendPage
    \/ Render

SpecFaults == Init /\ [][NextFaults]_vars

\* main on a batch of several resources
NextBatch ==
    \/ \E cfg \in BatchConfigs : StartClean(cfg, "none")
    \/ \E cfg \in BatchConfigs, credsValid \in BOOLEAN : StartFatal(cfg, credsValid)
    \/ \E cfg \in BatchConfigs, credsValid \in BOOLEAN : Start(cfg, credsValid)
    \/ Interrupt
    \/ Interrupted
    \/ FetchSkip
    \/ \E items \in BatchFeedItems : Fetch(items)
    \/ FetchFail
    \/ FetchDone
    \/ FeedBegin
    \/ ItemBegin("none")
    \/ ParserLookup("none")
    \/ \E data \in FaultParsedData : Parse(data, "none")
    \/ ParseFail
    \/ \E outcome \in CancellableOutcomes : AgentCall(outcome)
    \/ CacheAgentOutput("none")
    \/ AppendPage
    \/ Render

SpecBatch == Init /\ [][NextBatch]_vars

\* main over resources with filters
NextFiltered ==
    \/ \E cfg \in FilteredConfigs : StartClean(cfg, "none")
    \/ \E cfg \in FilteredConfigs, credsValid \in BOOLEAN : StartFatal(cfg, credsValid)
    \/ \E cfg \in FilteredConfigs, credsValid \in BOOLEAN : Start(cfg, credsValid)
    \/ Interrupt
    \/ Interrupted
    \/ FetchSkip
    \/ \E items \in FilteredFeedItems : Fetch(items)
    \/ FetchFail
    \/ FetchDone
    \/ FeedBegin
    \/ ItemFiltered
    \/ ItemBegin("none")
    \/ ParserLookup("none")
    \/ \E data \in FaultParsedData : Parse(data, "none")
    \/ ParseFail
    \/ \E outcome \in AgentOutcomes : AgentCall(outcome)
    \/ CacheAgentOutput("none")
    \/ AppendPage
    \/ Render

SpecFiltered == Init /\ [][NextFiltered]_vars

\* main with configurations that fail at startup and with the -clean flag
NextStartup ==
    \/ \E cfg \in StartupConfigs, cleanCache \in BOOLEAN : StartFatalParsers(cfg, cleanCache)
    \/ \E cfg \in StartupConfigs, fault \in ClearFaults : StartClean(cfg, fault)
    \/ \E cfg \in StartupConfigs, credsValid \in BOOLEAN : StartFatal(cfg, credsValid)
    \/ \E cfg \in StartupConfigs, credsValid \in BOOLEAN : Start(cfg, credsValid)
    \/ Interrupt
    \/ Interrupted
    \/ FetchSkip
    \/ \E items \in FaultFeedItems : Fetch(items)
    \/ FetchFail
    \/ FetchDone
    \/ FeedBegin
    \/ ItemBegin("none")
    \/ ParserLookup("none")
    \/ \E data \in FaultParsedData : Parse(data, "none")
    \/ ParseFail
    \/ \E outcome \in AgentOutcomes : AgentCall(outcome)
    \/ CacheAgentOutput("none")
    \/ AppendPage
    \/ Render

SpecStartup == Init /\ [][NextStartup]_vars

NextRetry ==
    \/ \E config \in RetryConfigs, underlying \in Scripts : RetryProcess(config, underlying)
    \/ RetryCancel
    \/ RetryTimedOut
    \/ \E cancelDuring \in BOOLEAN : RetryAttempt(cancelDuring)
    \/ RetryBackoffCancelled
    \/ RetryBackoffElapsed
    \/ RetryExhausted
    \/ RetryReturn

SpecRetry == Init /\ [][NextRetry]_vars

\* r.underlying.Process(ctx, content) returns: the step of RetryAttempt,
\* whatever the call returned
UnderlyingReturns == rpc = "attempt" /\ ~CtxDone /\ calls' = calls + 1

\* the other statements of a call in progress: the selects and the return
\* after the loop
RetryStep ==
    \/ RetryTimedOut
    \/ RetryBackoffCancelled
    \/ RetryBackoffElapsed
    \/ RetryExhausted

\* calls of Process whose statements are not held up for ever
SpecRetryLive ==
    Init /\ [][NextRetry]_vars /\ WF_calls(UnderlyingReturns) /\ WF_vars(RetryStep)

\* one wrapper, made by the first call and called again and again
NextReuse ==
    \/ \E config \in ReuseConfigs, underlying \in ReuseScripts : RetryProcess(config, underlying)
    \/ \E underlying \in ReuseScripts : RetryProcessAgain(underlying)
    \/ RetryCancel
    \/ RetryTimedOut
    \/ \E cancelDuring \in BOOLEAN : RetryAttempt(cancelDuring)
    \/ RetryBackoffCancelled
    \/ RetryBackoffElapsed
    \/ RetryExhausted
    \/ ConcurrentProcess
    \/ \E err \in {NilError, ErrQuota, ErrInvalid} : ConcurrentAttempt(err)
    \/ ConcurrentBackoff
    \/ ConcurrentExhausted
    \/ ConcurrentReturn

SpecReuse == Init /\ [][NextReuse]_vars

NextBackoff ==
    \/ \E err \in WordMessages \cup {NilError} : Classify(err)
    \/ \E parts \in DelayMessages : ExtractDelay(parts)
    \/ \E config \in RetryConfigs, attemptNo \in AttemptNumbers, parts \in DelayMessages :
          ComputeSleep(config, attemptNo, parts)
    \/ BackoffReturn

SpecBackoff == Init /\ [][NextBackoff]_vars

\* the backoff computation in the width of a Duration
NextWide ==
    \/ \E config \in WideConfigs, attemptNo \in LateAttemptNumbers,
          err \in {ErrQuota, ErrQuotaDelay}, conversion \in Conversions :
          ComputeWideSleep(config, attemptNo, err, conversion)
    \/ BackoffReturn

SpecWide == Init /\ [][NextWide]_vars

NextSerial ==
    \/ \E parserType \in ParserKinds, type \in SerializableTypes :
          \E resp \in Responses(type) : Serialize(parserType, resp)
    \/ \E parserType \in ParserKinds, type \in SerializableTypes :
          \E data \in CachedBytes(type) : Deserialize(parserType, data)
    \/ BackoffReturn

SpecSerial == Init /\ [][NextSerial]_vars

NextFilter ==
    \/ \E filtersConfig \in FiltersConfigs, title \in Titles, description \in Descriptions,
          filterNames \in FilterNames :
          ApplyFilters(filtersConfig, [ Title |-> title, Description |-> description ],
                       filterNames)
    \/ BackoffReturn

SpecFilter == Init /\ [][NextFilter]_vars

----------------------------------------------------------------------------
(* Properties of the cache store (SpecCache)                               *)

ParserKeysSet == { k \in DOMAIN lastParserSet : lastParserSet[k] # NilBytes }
AgentKeysSet == { k \in DOMAIN lastAgentSet : lastAgentSet[k] # NoSet }

Occurrences(seq, x) == Cardinality({ i \in 1..Len(seq) : seq[i] = x })

IsPermutation(a, b) ==
    /\ Len(a) = Len(b)
    /\ \A i \in 1..Len(a) : Occurrences(a, a[i]) = Occurrences(b, a[i])

CommaFree(agentPipeline) ==
    \A i \in 1..Len(agentPipeline) : ~HasComma(agentPipeline[i])

\* the row r was written by a SetAgentOutput whose agent sequence is a
\* permutation of agentPipeline other than agentPipeline itself
StoredUnderOtherPermutation(r, agentPipeline) ==
    LET writer == lastAgentSet[<<r.url, r.parser_type, r.agent_pipeline>>].agents
    IN  IsPermutation(writer, agentPipeline) /\ writer # agentPipeline

C2_OneEntryPerKey ==
    /\ \A r \in DOMAIN parser_cache :
         /\ parser_cache[r] = 1
         /\ SelectParserOutput(parser_cache, r.url, r.parser_type) = {r}
    /\ \A r \in DOMAIN agent_cache :
         /\ agent_cache[r] = 1
         /\ SelectAgentOutput(agent_cache, r.url, r.parser_type, r.agent_pipeline) = {r}
    /\ CountEntries(parser_cache) = Cardinality(ParserKeysSet)
    /\ CountEntries(agent_cache) = Cardinality(AgentKeysSet)
    /\ ret.op = "Stats" =>
         /\ ret.ParserEntries = Cardinality(ParserKeysSet)
         /\ ret.AgentEntries = Cardinality(AgentKeysSet)
    /\ \A k \in ParserKeysSet :
         GetParserOutputResult(parser_cache, k[1], k[2]).output = lastParserSet[k]

\* a second SetParserOutput on a key that was already present, one row left
C2_Witness ==
    /\ ret.op = "SetParserOutput"
    /\ ret.existed
    /\ CountEntries(parser_cache) = 1

\* C3 as stated: an entry stored under A is never returned under a
\* permutation A' # A, whatever the agent names.
C3_PermutationsNeverCollide ==
    (ret.op = "GetAgentOutput" /\ ret.res.found) =>
        \A r \in SelectAgentOutput(agent_cache, ret.url, ret.parser_type,
                                   Join(ret.agents, Comma)) :
            ~StoredUnderOtherPermutation(r, ret.agents)

\* C3 amended: for agent names that hold no comma, permutations A # A' have
\* different keys and an entry stored under A is never returned under A'.
C3_CommaFreePermutationsNeverCollide ==
    /\ \A a \in Pipelines, b \in Pipelines :
         (CommaFree(a) /\ IsPermutation(a, b) /\ a # b)
            => Join(a, Comma) # Join(b, Comma)
    /\ (ret.op = "GetAgentOutput" /\ ret.res.found /\ CommaFree(ret.agents)) =>
         \A r \in SelectAgentOutput(agent_cache, ret.url, ret.parser_type,
                                    Join(ret.agents, Comma)) :
             ~StoredUnderOtherPermutation(r, ret.agents)

\* [y, x] misses although [x, y] is stored for the same url and parser kind
C3_Witness ==
    /\ ret.op = "GetAgentOutput"
    /\ ret.agents = <<NameY, NameX>>
    /\ ~ret.res.found
    /\ lastAgentSet[<<ret.url, ret.parser_type, Join(<<NameX, NameY>>, Comma)>>] # NoSet

----------------------------------------------------------------------------
(* Properties of main (Spec)                                               *)

\* the parser-cache rows of the current item's (link, parser kind)
ItemParserRows == SelectParserOutput(parser_cache, item.Link, resource.ParserT)

\* an item is being worked on
InItem == pc \in {"parserCache", "parse", "agents", "agentsDone", "page"}

C5_AgentCacheHitShortCircuits ==
    did.agentGet = "hit" =>
       /\ did.parserGet = "none"
       /\ did.parse = "none"
       /\ ~did.parserSet
       /\ did.called = <<>>
       /\ ~did.agentSet
       /\ pc \notin {"parserCache", "parse", "agents", "agentsDone"}
       /\ pc = "page" =>
             \A r \in SelectAgentOutput(agent_cache, item.Link, resource.ParserT,
                                        Join(resource.Agents, Comma)) :
                content = r.output_data
       /\ ev.op = "page" =>
             pages[ev.at][Len(pages[ev.at])].Content \in
                { r.output_data :
                    r \in SelectAgentOutput(agent_cache, ev.link, conf[ev.at].ParserT,
                                            Join(conf[ev.at].Agents, Comma)) }

\* the page of an item whose text came from the agent cache, the second
\* agent having failed when the text was made
C5_Witness ==
    /\ ev.op = "page"
    /\ did.agentGet = "hit"
    /\ pages[ev.at][Len(pages[ev.at])].Content = Text("d1", <<Summary>>)
    /\ Len(conf[ev.at].Agents) = 2

\* the agent-cache rows of the current item stored under another agent list
OtherPipelineRows ==
    { r \in DOMAIN agent_cache :
        /\ r.url = item.Link
        /\ r.parser_type = resource.ParserT
        /\ r.agent_pipeline # Join(resource.Agents, Comma) }

\* the agent-cache rows of the current item under the resource's agent list
ItemAgentRows ==
    SelectAgentOutput(agent_cache, item.Link, resource.ParserT, Join(resource.Agents, Comma))

\* C6: an item that has an agent-cache entry under another agent list and
\* none under the configured list A' misses the agent cache; when its chain
\* ends the parser cache was hit, Parse was not invoked, the agents of A' ran
\* on the cached parsed content, the result is stored under A', and the entry
\* of the other list is left as it was.
C6_OtherAgentListReusesParsedContent ==
    [][ /\ ( /\ pc = "item" /\ ev'.op = "item"
             /\ Len(resource.Agents) > 0
             /\ ItemAgentRows = {} )
           => did'.agentGet = "miss" /\ pc' = "parserCache"
        /\ ( /\ ev'.op = "cacheAgentOutput"
             /\ OtherPipelineRows # {} )
           => /\ did.agentGet = "miss"
              /\ did.parserGet = "hit"
              /\ did.parse = "none"
              /\ did.called = SubSeq(resource.Agents, 1, Len(did.called))
              /\ content.base = did.parsed.base
              /\ \A r \in ItemParserRows : r.output_data[2] = content.base
              /\ \E r \in DOMAIN agent_cache' :
                    /\ r.url = item.Link
                    /\ r.parser_type = resource.ParserT
                    /\ r.agent_pipeline = Join(resource.Agents, Comma)
                    /\ r.output_data = content
              /\ \A r \in OtherPipelineRows :
                    r \in DOMAIN agent_cache' /\ agent_cache'[r] = agent_cache[r]
      ]_vars

\* an item run under <<summary>> before has just been stored under
\* <<summary, summary>>, both agents having run on the cached payload
C6_Witness ==
    /\ ev.op = "cacheAgentOutput"
    /\ did.parserGet = "hit"
    /\ did.parse = "none"
    /\ resource.Agents = <<Summary, Summary>>
    /\ content = Text("d2", <<Summary, Summary>>)
    /\ \E r \in OtherPipelineRows : r.agent_pipeline = Summary

\* the number of agents of the current item that have succeeded
Succeeded == IF did.failed = "no" THEN Len(did.called) ELSE Len(did.called) - 1

C8_FinalTextStoredAndReused ==
    /\ ev.op = "cacheAgentOutput" =>
          /\ ItemAgentRows # {}
          /\ \A r \in ItemAgentRows : agent_cache[r] = 1 /\ r.output_data = content
    /\ (ev.op = "item" /\ ev.stored) => did.agentGet = "hit" /\ pc = "page"
    /\ did.agentGet = "hit" => did.called = <<>> /\ pc \notin {"agents", "agentsDone"}

\* a second process hits the text the first one stored after its first
\* agent failed
C8_Witness ==
    /\ runs = 2
    /\ ev.op = "item"
    /\ ev.stored
    /\ did.agentGet = "hit"
    /\ content = Text("d1", <<>>)

\* C9 as stated: the agent main calls is a retryAgent, and a retryable failure
\* reaches main only after the agent was invoked more than once.
C9_AgentCallsGoThroughRetry ==
    ev.op = "agent" =>
       /\ ev.retry
       /\ ev.outcome = "retryable" => ev.invocations > 1

----------------------------------------------------------------------------
(* Properties of the retry wrapper (SpecRetry)                             *)

\* the underlying agent fails with retryable errors on its first n calls and
\* then succeeds
FailsThenSucceeds(n) ==
    /\ \A k \in 1..n : isRetryable(script[k])
    /\ script[n + 1] = NilError

\* C10: when the underlying agent fails with retryable errors on its first N
\* calls, N <= MaxRetries, and then succeeds, and the call ends with the
\* caller's context not cancelled and the deadline not reached, Process has
\* returned the underlying agent's output with a nil error after exactly N+1
\* calls of the underlying agent.
C10_SuccessAfterRetryableFailures ==
    \A n \in 0..rcfg.MaxRetries :
       (rpc = "done" /\ FailsThenSucceeds(n) /\ ~cancelled /\ elapsed < deadline) =>
          /\ result.err = "nil"
          /\ result.output = UnderlyingOutput
          /\ calls = n + 1
          /\ sleeps = n

\* success on the last permitted attempt: MaxRetries failures, then the output
C10_Witness ==
    /\ rpc = "done"
    /\ rcfg.MaxRetries = 2
    /\ FailsThenSucceeds(2)
    /\ script[1] # script[2]
    /\ ~cancelled
    /\ elapsed < deadline
    /\ calls = 3
    /\ result.err = "nil"

\* the first k-1 calls of the underlying agent fail with retryable errors and
\* the k-th fails with an error that is not retryable
FirstNonRetryableAt(k) ==
    /\ k \in 1..Len(script)
    /\ \A m \in 1..(k - 1) : isRetryable(script[m])
    /\ script[k] # NilError
    /\ ~isRetryable(script[k])

\* C11: once the underlying agent has returned its first non-retryable error,
\* on call k, Process has returned a "non-retryable error" wrapping it; the
\* underlying agent has been called k times and no more, and no sleep has
\* followed the k-1 sleeps between those calls.
C11_NonRetryableReturnsAtOnce ==
    \A k \in 1..Len(script) :
       (FirstNonRetryableAt(k) /\ calls >= k) =>
          /\ calls = k
          /\ rpc = "done"
          /\ result.err = "non-retryable error"
          /\ result.wraps = script[k]
          /\ sleeps = k - 1
          /\ attempt = k - 1

\* a non-retryable error on the second call, with retries left
C11_Witness ==
    /\ rpc = "done"
    /\ rcfg.MaxRetries = 2
    /\ FirstNonRetryableAt(2)
    /\ calls = 2
    /\ result.err = "non-retryable error"

\* every call of the underlying agent that Process can make fails with a
\* retryable error
AlwaysRetryable == \A k \in 1..(rcfg.MaxRetries + 1) : isRetryable(script[k])

\* C12: when every call of the underlying agent fails with a retryable error
\* and the call ends with the caller's context not cancelled and the deadline
\* not reached, the underlying agent has been called MaxRetries+1 times, with
\* MaxRetries sleeps, and Process has returned "max retries exceeded" wrapping
\* the error of the last call.
C12_ExhaustionAfterMaxRetries ==
    (rpc = "done" /\ AlwaysRetryable /\ ~cancelled /\ elapsed < deadline) =>
       /\ calls = rcfg.MaxRetries + 1
       /\ sleeps = rcfg.MaxRetries
       /\ result.err = "max retries exceeded"
       /\ result.wraps = script[rcfg.MaxRetries + 1]
       /\ result.output = NoContent

\* three failures with MaxRetries = 2, the last error unlike the one before
C12_Witness ==
    /\ rpc = "done"
    /\ rcfg.MaxRetries = 2
    /\ AlwaysRetryable
    /\ script[2] # script[3]
    /\ ~cancelled
    /\ elapsed < deadline
    /\ result.err = "max retries exceeded"

\* Process has failed because its context was done
EndedByContext ==
    /\ rpc = "done"
    /\ result.err \in {"operation timed out", "operation cancelled during backoff"}

\* C13 as stated: a call the overall deadline ended, during a sleep or before
\* an attempt, has failed with the timed-out error, and no later than at the
\* deadline unless a call of the underlying agent was still under way then.
C13_DeadlineIsTimedOut ==
    (EndedByContext /\ result.wraps = ErrDeadlineExceeded) =>
       /\ result.err = "operation timed out"
       /\ elapsed <= deadline + CallTime

\* C14: a sleep during which the caller's context is cancelled is followed by
\* nothing but the return of Process: no time passes, the sleep is not
\* counted as completed, the underlying agent is not called, and the error
\* returned wraps the cancellation.
C14_CancelDuringBackoffAborts ==
    [][ (rpc = "backoff" /\ cancelled) =>
           /\ rpc' = "done"
           /\ calls' = calls
           /\ sleeps' = sleeps
           /\ attempt' = attempt
           /\ elapsed' = elapsed
           /\ result'.err = "operation cancelled during backoff"
           /\ result'.wraps = ErrCanceled
           /\ result'.output = NoContent
      ]_vars

\* a call cancelled in its second sleep
C14_Witness ==
    /\ rpc = "done"
    /\ result.err = "operation cancelled during backoff"
    /\ result.wraps = ErrCanceled
    /\ calls = 2
    /\ sleeps = 1
    /\ elapsed < deadline

\* C15 as stated: the error of a failed call names its cause, and only it:
\* timed out for the deadline, cancelled for the caller's cancellation,
\* non-retryable for an error the classification rejects, max retries
\* exceeded for MaxRetries+1 retryable failures.
C15_ErrorNamesItsCause ==
    (rpc = "done" /\ result.err # "nil") =>
       /\ result.wraps = ErrDeadlineExceeded <=> result.err = "operation timed out"
       /\ result.wraps = ErrCanceled <=> result.err = "operation cancelled during backoff"
       /\ result.err = "non-retryable error" <=>
             (result.wraps \in Errors /\ ~isRetryable(result.wraps))
       /\ result.err = "max retries exceeded" <=>
             (result.wraps \in Errors /\ isRetryable(result.wraps))

----------------------------------------------------------------------------
(* Properties of the backoff computation and of the classification         *)
(* (SpecBackoff)                                                           *)

\* the message carries a delay in seconds after one of the two markers
CarriesSuggestedDelay(parts) ==
    /\ parts.marker \in {RetryInMarker, RetryDelayMarker}
    /\ parts.number.thousandths > 0
    /\ parts.unit = <<"s">>

\* the message carries no delay: no marker, or no number after it
CarriesNoDelay(parts) == parts.marker = <<>> \/ parts.number.text = <<>>

\* C16 as stated: the backoff sleep after a retryable failure of attempt i is
\* min(InitialBackoff * 2^i, MaxBackoff) when the message carries no delay,
\* and min(suggested delay, MaxBackoff) when it carries one in seconds.
C16_SleepIsSuggestedOrExponential ==
    probe.op = "sleepDuration" =>
       /\ CarriesSuggestedDelay(probe.parts) =>
             probe.sleep = Min(probe.parts.number.thousandths * Millisecond,
                               probe.config.MaxBackoff)
       /\ CarriesNoDelay(probe.parts) =>
             probe.sleep = Min(probe.config.InitialBackoff * (2 ^ probe.attemptNo),
                               probe.config.MaxBackoff)

\* two characters that are equal up to the case of a letter
SameLetter(a, b) ==
    \/ a = b
    \/ \E n \in 1..Len(UpperChars) : {a, b} = {UpperChars[n], LowerChars[n]}

\* str contains pattern, case-insensitively
ContainsFold(str, pattern) ==
    \E off \in 0..(Len(str) - Len(pattern)) :
        \A k \in 1..Len(pattern) : SameLetter(str[off + k], pattern[k])

\* C17: an error is classified retryable if and only if its message
\* contains, case-insensitively, one of the fixed patterns; a nil error and
\* every other error are not retryable.
C17_RetryableIffPattern ==
    probe.op = "isRetryable" =>
       (probe.retryable <=>
           /\ probe.err # NilError
           /\ \E pattern \in retryablePatterns : ContainsFold(probe.err, pattern))

\* an error is classified retryable whose message has a pattern only in
\* another case
C17_Witness ==
    /\ probe.op = "isRetryable"
    /\ probe.retryable
    /\ \A pattern \in retryablePatterns : ~Contains(probe.err, pattern)

----------------------------------------------------------------------------
(* Properties of the cache store when statements may fail and time passes  *)
(* (SpecStore)                                                             *)

BothTiersEmpty == parser_cache = EmptyBag /\ agent_cache = EmptyBag

\* the step is a Set that returned nil
SetSucceeds ==
    /\ ret'.op \in {"SetParserOutput", "SetAgentOutput"}
    /\ ret'.err = NilError
    /\ nwrites' = nwrites + 1

\* C18: after Clear returns successfully both tiers are empty, whatever keys
\* they held; from then until a Set succeeds, Stats reports 0 parser entries
\* and 0 agent entries and every GetParserOutput and GetAgentOutput returns
\* not-found.
C18_ClearEmptiesBothTiers ==
    /\ []((ret.op = "Clear" /\ ret.err = NilError) => BothTiersEmpty)
    /\ [][ (BothTiersEmpty /\ ~SetSucceeds) =>
              /\ BothTiersEmpty'
              /\ ret'.op \in {"GetParserOutput", "GetAgentOutput"} => ~ret'.res.found
              /\ (ret'.op = "Stats" /\ ret'.err = NilError) =>
                    ret'.ParserEntries = 0 /\ ret'.AgentEntries = 0 ]_vars

\* Clear has returned nil on a store that held entries in both tiers
C18_Witness ==
    /\ ret.op = "Clear"
    /\ ret.err = NilError
    /\ ret.had.parser > 0
    /\ ret.had.agent > 0
    /\ BothTiersEmpty

\* created_at of the entries of both tiers
CreatedAts ==
    { r.created_at : r \in DOMAIN parser_cache } \cup { r.created_at : r \in DOMAIN agent_cache }

\* C19: Stats returns ParserEntries equal to the number of live parser-tier
\* entries, AgentEntries equal to the number of live agent-tier entries, and
\* OldestEntry equal to the minimum created_at over the entries of both tiers,
\* or the zero time when both tiers are empty.
C19_StatsCountsAndOldest ==
    (ret.op = "Stats" /\ ret.err = NilError) =>
       /\ ret.ParserEntries = Cardinality(ParserKeysSet)
       /\ ret.AgentEntries = Cardinality(AgentKeysSet)
       /\ BothTiersEmpty => ret.OldestEntry = ZeroTime
       /\ ~BothTiersEmpty =>
             /\ ret.OldestEntry # ZeroTime
             /\ ret.OldestEntry.sec \in CreatedAts
             /\ \A t \in CreatedAts : ret.OldestEntry.sec <= t

\* Stats reports an agent-tier entry as the oldest while the parser tier holds
\* a newer one
C19_Witness ==
    /\ ret.op = "Stats"
    /\ ret.err = NilError
    /\ ret.ParserEntries = 1
    /\ ret.AgentEntries = 1
    /\ \E r \in DOMAIN agent_cache : ret.OldestEntry = Unix(r.created_at)
    /\ \A r \in DOMAIN parser_cache : ret.OldestEntry.sec < r.created_at

\* C20: GetParserOutput and GetAgentOutput never return an error; on a miss or
\* on a storage error during the lookup they report not-found, and on a hit
\* they return the stored payload as found, even when the update of
\* accessed_at fails.
C20_GetNeverFails ==
    /\ ret.op = "GetParserOutput" =>
         LET last == lastParserSet[<<ret.url, ret.parser_type>>]
         IN  /\ ret.err = NilError
             /\ (ret.fault = "select" \/ last = NilBytes) =>
                   ret.res = [ output |-> NilBytes, found |-> FALSE ]
             /\ (ret.fault # "select" /\ last # NilBytes) =>
                   ret.res = [ output |-> last, found |-> TRUE ]
    /\ ret.op = "GetAgentOutput" =>
         LET last == lastAgentSet[<<ret.url, ret.parser_type, Join(ret.agents, Comma)>>]
         IN  /\ ret.err = NilError
             /\ (ret.fault = "select" \/ last = NoSet) =>
                   ret.res = [ output |-> "", found |-> FALSE ]
             /\ (ret.fault # "select" /\ last # NoSet) =>
                   ret.res = [ output |-> last.output, found |-> TRUE ]

\* a hit whose update of accessed_at failed: the payload is returned and the
\* row keeps the accessed_at it had
C20_Witness ==
    /\ ret.op = "GetParserOutput"
    /\ ret.fault = "update"
    /\ ret.res = [ output |-> <<"web", "d1">>, found |-> TRUE ]
    /\ \E r \in SelectParserOutput(parser_cache, ret.url, ret.parser_type) :
          r.accessed_at < clock

----------------------------------------------------------------------------
(* Properties of main on a failing cache (SpecFaults)                      *)

\* C21: cache failures never escalate to item-level failure.  A started item
\* ends with its page unless its parse failed; a step that reads or writes the
\* cache records no error, whatever failed in it; and a parser-cache read that
\* failed or whose payload did not deserialize is a miss, after which the
\* parser is invoked.
C21_CacheFailuresNeverEscalate ==
    [][ /\ (pc \in {"parserCache", "parse", "agents", "agentsDone", "page"}
            /\ pc' \in {"item", "feed", "idle"}) =>
              \/ ev'.op = "page"
              \/ ev'.op = "parse" /\ did'.parse = "err"
        /\ (pc \in {"item", "parserCache", "parse", "agents", "agentsDone"}
            /\ ev'.op \in {"item", "parserLookup", "parse", "cacheAgentOutput"}
            /\ ~(ev'.op = "parse" /\ did'.parse = "err")) =>
              errs' = errs
        /\ (pc = "parserCache" /\ "GetParserOutput" \in did'.faults) =>
              (did'.parserGet = "miss" /\ pc' = "parse" /\ content' = content)
      ]_vars

\* an item gets its page although the cache failed at every operation on it
C21_Witness ==
    /\ ev.op = "page"
    /\ did.faults = {"GetAgentOutput", "GetParserOutput", "SetParserOutput", "SetAgentOutput"}
    /\ did.parse = "ok"

----------------------------------------------------------------------------
(* Properties of the serialization (SpecSerial)                            *)

\* C22: DeserializeParserResponse(kind, bytes) returns an error and no
\* payload whenever the parser kind stored inside the bytes differs from the
\* requested kind.
C22_KindMismatchFails ==
    (probe.op = "DeserializeParserResponse" /\ Len(probe.data) = 2
     /\ probe.data[1] # probe.parserType) =>
        (~probe.res.ok /\ probe.res.resp.type = NilResponse.type)

\* bytes written for a youtube response and since tagged telegram are asked
\* for as youtube and refused
C22_Witness ==
    /\ probe.op = "DeserializeParserResponse"
    /\ probe.parserType = "youtube"
    /\ Len(probe.data) = 2
    /\ probe.data[1] = "telegram"
    /\ "Transcription" \in DOMAIN probe.data[2]
    /\ ~probe.res.ok

\* C23 as stated: for every supported kind and every payload p of that kind,
\* DeserializeParserResponse(kind, SerializeParserResponse(kind, p)) succeeds
\* and returns a payload equal to p.
C23_RoundTrip ==
    (probe.op = "SerializeParserResponse" /\ probe.parserType \in SerializableTypes
     /\ probe.resp.type = probe.parserType) =>
        /\ probe.res.ok
        /\ DeserializeParserResponse(probe.parserType, probe.res.bytes) =
              [ resp |-> probe.resp, ok |-> TRUE ]

----------------------------------------------------------------------------
(* Properties of a batch of several resources (SpecBatch)                  *)

\* the errors of one kind recorded for resource k
ErrorsAt(errors, what, k) ==
    { n \in 1..Len(errors) : errors[n] = [ what |-> what, at |-> k ] }

\* the step is the one that left the event op (a signal leaves the event as
\* it was)
Did(op) == ev'.op = op /\ ~(~ctxDone /\ ctxDone')

\* C24: a failure fetching one resource or parsing one item is recorded and
\* never aborts the batch: the loop goes on with the next resource or item, so
\* that at the end of the fetch loop every enabled resource has a feed or a
\* recorded error and at the end of the feed loop every fetched item has a
\* page or a recorded parse error; the failed item produces no page and no
\* cache entry.
C24_FailureNeverAbortsBatch ==
    [][ /\ Did("fetchFail") =>
              /\ pc' = "fetch" /\ iRes' = iRes + 1
              /\ errs' = Append(errs, [ what |-> "fetch", at |-> iRes ])
              /\ feeds' = feeds /\ feeds[iRes].nil
        /\ (Did("parse") /\ did'.parse = "err") =>
              /\ errs' = Append(errs, [ what |-> "parse", at |-> iRes ])
              /\ pages' = pages
              /\ parser_cache' = parser_cache /\ agent_cache' = agent_cache
              /\ IF jItem < Len(feeds[iRes].Items)
                 THEN pc' = "item" /\ iRes' = iRes /\ jItem' = jItem + 1
                 ELSE pc' = "feed" /\ iRes' = iRes + 1
        /\ Did("fetched") =>
              \A k \in 1..Len(conf) :
                  IsEnabled(conf[k]) => (~feeds[k].nil \/ ErrorsAt(errs, "fetch", k) # {})
        /\ Did("render") =>
              \A k \in 1..Len(feeds) :
                  ~feeds[k].nil =>
                      Len(pages[k]) + Cardinality(ErrorsAt(errs, "parse", k))
                          = Len(feeds[k].Items) ]_vars

\* the feed loop is over: the first resource could not be fetched, the first
\* item of the third could not be parsed and its second item has a page
C24_Witness ==
    /\ pc = "feed" /\ iRes > Len(feeds) /\ Len(feeds) = 3
    /\ IsEnabled(conf[1]) /\ feeds[1].nil
    /\ Len(feeds[3].Items) = 2
    /\ ErrorsAt(errs, "parse", 3) # {}
    /\ Len(pages[3]) = 1 /\ pages[3][1].Link = feeds[3].Items[2].Link

\* C25: once the cancellation signal has been raised no further item is
\* started: the next check of ctx.Done(), before a fetch, at the head of the
\* feed loop or at the head of the item loop, makes the run return, and no
\* fetch, cache lookup, parse or agent call is made for a resource or an item
\* that had not been started.
C25_NoItemStartedAfterCancel ==
    [][ ctxDone =>
          /\ ev'.op \notin {"item", "feed", "fetch", "fetchFail"}
          /\ pc = "item" => ev'.op = "interrupted"
          /\ pc = "feed" => ev'.op \in {"interrupted", "render"}
          /\ pc = "fetch" => ev'.op \in {"interrupted", "skip", "fetched"}
          /\ pc \in {"item", "feed", "fetch"} =>
                /\ parser_cache' = parser_cache /\ agent_cache' = agent_cache
                /\ parsedKeys' = parsedKeys ]_vars

\* the run returned at the head of the item loop with the second item of a
\* feed not started
C25_Witness ==
    /\ ev.op = "interrupted"
    /\ ev.at = "item"
    /\ ev.jItem = 2
    /\ pc = "idle"

\* the links of the pages ps are links of the items, in the order of the items
InItemOrder(ps, items) ==
    \E f \in [1..Len(ps) -> 1..Len(items)] :
        /\ \A n \in 1..Len(ps) : items[f[n]].Link = ps[n].Link
        /\ \A m, n \in 1..Len(ps) : m < n => f[m] < f[n]

\* C26: within a resource the pages are in the order of the items the fetch
\* returned, and the resources of the rendered document are those that have
\* pages, each with its pages, in the order of the configuration.
C26_PagesAndResourcesInOrder ==
    /\ [](pc \notin {"idle", "fetch"} =>
            \A k \in 1..Len(pages) : InItemOrder(pages[k], feeds[k].Items))
    /\ [][ Did("render") =>
             LET Resources == ev'.Resources
             IN  /\ \A m, n \in 1..Len(Resources) :
                        m < n => Resources[m].at < Resources[n].at
                 /\ \A m \in 1..Len(Resources) :
                        Resources[m].Pages = pages[Resources[m].at]
                 /\ { Resources[m].at : m \in 1..Len(Resources) }
                        = { k \in 1..Len(pages) : Len(pages[k]) > 0 } ]_vars

\* a document of the first and the third resource, the disabled second one
\* left out, the third with the pages of its two items in their order
C26_Witness ==
    /\ ev.op = "render"
    /\ Len(ev.Resources) = 2
    /\ ev.Resources[1].at = 1
    /\ ev.Resources[2].at = 3
    /\ Len(ev.Resources[2].Pages) = 2
    /\ ev.Resources[2].Pages[1].Link = "u2"
    /\ ev.Resources[2].Pages[2].Link = "u1"

----------------------------------------------------------------------------
(* Properties of the filter pipeline (SpecFilter)                          *)

\* the k-th name of the call is of a configured rule, and what that rule alone
\* gives on the item
Known(k) == probe.filterNames[k] \in DOMAIN probe.filtersConfig
RuleResult(k) ==
    applyFilter(probe.item, NewFilterPipeline(probe.filtersConfig)[probe.filterNames[k]],
                probe.filterNames[k])
FailsAt(k) == Known(k) /\ ~RuleResult(k).include

\* C27: ShouldInclude returns (true, "") exactly when no known rule named in
\* ruleNames fails on the item, so for every item when ruleNames is empty or
\* names only unknown rules; otherwise it returns (false, reason) with the
\* reason of the first failing rule in the order of ruleNames.
C27_FirstFailingRuleDecides ==
    probe.op = "ShouldInclude" =>
        LET names == 1..Len(probe.filterNames)
        IN  /\ probe.res.include <=> \A k \in names : ~FailsAt(k)
            /\ probe.res.include => probe.res.reason = <<>>
            /\ \A k \in names :
                  (FailsAt(k) /\ \A j \in 1..(k - 1) : ~FailsAt(j)) =>
                      probe.res = [ include |-> FALSE, reason |-> RuleResult(k).reason ]

\* two rules fail on the item for different reasons and the first one named
\* gives the reason
C27_Witness ==
    /\ probe.op = "ShouldInclude"
    /\ probe.filterNames = <<"spam", "short">>
    /\ FailsAt(1) /\ FailsAt(2)
    /\ RuleResult(1).reason # RuleResult(2).reason
    /\ probe.res.reason[1] = "spam"

\* the text a rule looks at, its words (the characters that begin a run of
\* letters and digits) and its lines that are not blank (the characters that
\* are the first non-space one of their line)
ItemText == probe.item.Title \o <<" ">> \o probe.item.Description
WordCount ==
    Cardinality({ n \in 1..Len(ItemText) :
                    /\ IsLetterOrNumber(ItemText[n])
                    /\ n > 1 => ~IsLetterOrNumber(ItemText[n - 1]) })
NonBlankLines ==
    Cardinality({ n \in 1..Len(ItemText) :
                    /\ ~IsSpace(ItemText[n])
                    /\ \A m \in 1..(n - 1) :
                          ~IsSpace(ItemText[m]) => \E l \in m..n : ItemText[l] = "\n" })
ShortRule == probe.filtersConfig["short"]
MatchingPatterns ==
    { i \in 1..Len(ShortRule.ExcludePatterns) :
        /\ Compile(ShortRule.ExcludePatterns[i]).ok
        /\ Contains(ItemText, Chars(ShortRule.ExcludePatterns[i])) }
OnlyShortRule == probe.op = "ShouldInclude" /\ probe.filterNames = <<"short">>

\* C28: a single rule on text = title + " " + description checks in this
\* order and fails on the first that applies: MinLength > 0 and len(text) <
\* MinLength gives "<rule>:min_length"; MinWords > 0 and fewer words gives
\* "<rule>:min_words"; a matching exclusion pattern gives
\* "<rule>:exclude_pattern[...]"; RequireParagraphs and fewer than two
\* non-blank lines gives "<rule>:require_paragraphs"; otherwise it passes.
C28_ChecksInOrder ==
    OnlyShortRule =>
        IF ShortRule.MinLength > 0 /\ ByteLen(ItemText) < ShortRule.MinLength
        THEN probe.res = [ include |-> FALSE, reason |-> <<"short", ":min_length">> ]
        ELSE IF ShortRule.MinWords > 0 /\ WordCount < ShortRule.MinWords
        THEN probe.res = [ include |-> FALSE, reason |-> <<"short", ":min_words">> ]
        ELSE IF MatchingPatterns # {}
        THEN /\ ~probe.res.include
             /\ Len(probe.res.reason) = 4
             /\ probe.res.reason[1] = "short"
             /\ probe.res.reason[2] = ":exclude_pattern["
             /\ probe.res.reason[4] = "]"
        ELSE IF ShortRule.RequireParagraphs /\ NonBlankLines < 2
        THEN probe.res = [ include |-> FALSE, reason |-> <<"short", ":require_paragraphs">> ]
        ELSE probe.res = [ include |-> TRUE, reason |-> <<>> ]

\* an item too short, of too few words, matching a pattern and of one line is
\* excluded for its length
C28_Witness ==
    /\ OnlyShortRule
    /\ ShortRule.MinLength > 0 /\ ByteLen(ItemText) < ShortRule.MinLength
    /\ ShortRule.MinWords > 0 /\ WordCount < ShortRule.MinWords
    /\ MatchingPatterns # {}
    /\ ShortRule.RequireParagraphs /\ NonBlankLines < 2
    /\ probe.res.reason = <<"short", ":min_length">>

\* C29 as stated: when a rule excludes an item because of an exclusion
\* pattern, the reason names the first pattern in configured order that
\* matches the text, also when the configured list holds invalid patterns.
C29_ReasonNamesFirstMatchingPattern ==
    (OnlyShortRule /\ Len(probe.res.reason) = 4) =>
        \E i \in MatchingPatterns :
            /\ \A j \in MatchingPatterns : i <= j
            /\ probe.res.reason = << "short", ":exclude_pattern[",
                                     ShortRule.ExcludePatterns[i], "]" >>

\* C30 as stated: an item is excluded with "<rule>:min_length" exactly when
\* min_length > 0 and the number of characters of title plus description is
\* below min_length.
C30_MinLengthCountsCharacters ==
    OnlyShortRule =>
        (probe.res = [ include |-> FALSE, reason |-> <<"short", ":min_length">> ]
         <=> (ShortRule.MinLength > 0
              /\ Len(probe.item.Title) + Len(probe.item.Description) < ShortRule.MinLength))

----------------------------------------------------------------------------
(* Properties of the startup of main (SpecStartup)                         *)

\* every row of the table after the step was in the table before it
NoNewRows(before, after) ==
    \A row \in DOMAIN after : row \in DOMAIN before /\ after[row] <= before[row]

\* C31: with -clean the run calls Clear() and exits without running the
\* pipeline: it is over in the step that clears, with no feed fetched, no
\* item parsed or processed, nothing rendered and no entry written; when
\* Clear succeeds both tables are empty; and until another run is started
\* nothing is written.
C31_CleanOnlyClears ==
    [][ /\ Did("clean") =>
              /\ pc = "idle" /\ pc' = "idle"
              /\ feeds' = <<>> /\ pages' = <<>>
              /\ ~ev'.failed => (parser_cache' = EmptyBag /\ agent_cache' = EmptyBag)
              /\ NoNewRows(parser_cache, parser_cache')
              /\ NoNewRows(agent_cache, agent_cache')
        /\ (pc = "idle" /\ ev.op = "clean" /\ ~Did("start")) =>
              /\ ev'.op \in {"clean", "fatal"}
              /\ NoNewRows(parser_cache, parser_cache')
              /\ NoNewRows(agent_cache, agent_cache') ]_vars

\* a run with -clean has emptied a cache that held entries of both tiers
C31_Witness ==
    /\ ev.op = "clean" /\ ~ev.failed
    /\ ev.entries >= 2
    /\ pc = "idle"
    /\ parser_cache = EmptyBag /\ agent_cache = EmptyBag

\* what the startup asks of a configuration: the parser kind of every enabled
\* resource is known, and if any resource names an agent the credentials are
\* valid and every agent named is the summary agent
StartupOK(cfg, credsValid) ==
    /\ \A r \in 1..Len(cfg) : IsEnabled(cfg[r]) => cfg[r].ParserT \in ParserKinds
    /\ (\E r \in 1..Len(cfg) : Len(cfg[r].Agents) > 0) =>
          /\ credsValid
          /\ \A r \in 1..Len(cfg) : \A n \in 1..Len(cfg[r].Agents) : cfg[r].Agents[n] = Summary

----------------------------------------------------------------------------
(* Properties of the cache writes and of the agent chain under             *)
(* cancellation (SpecBatch)                                                *)

\* C33 as stated: if the cancellation interrupts an item's agent chain, the
\* run returns without writing an agent-tier entry for that item; and no
\* parser-tier entry is written for a parse that did not complete.
C33_NoWriteAfterInterruptedChain ==
    [][ /\ (Did("cacheAgentOutput") /\ did.failed = "cancelled") =>
              agent_cache' = agent_cache
        /\ (Did("parse") /\ did'.parse = "err") => parser_cache' = parser_cache ]_vars

\* C34 as stated: if the cancellation signal is raised while an item is being
\* looked up or parsed, none of that item's agents is invoked.
C34_NoAgentAfterCancelDuringParse ==
    [][ (ctxDone /\ did.called = <<>>) => ~Did("agent") ]_vars

----------------------------------------------------------------------------
(* Properties of the order of the steps of an item (Spec)                  *)

----------------------------------------------------------------------------
(* Properties of main over resources with filters (SpecFiltered)           *)

\* the item is eligible: its resource is enabled and names no filter, or the
\* pipeline includes the item
Eligible(resourceConfig, feedItem) ==
    /\ IsEnabled(resourceConfig)
    /\ \/ "FilterNames" \notin DOMAIN resourceConfig
       \/ ShouldInclude(NewFilterPipeline(ConfFilters), feedItem,
                        resourceConfig.FilterNames).include

\* C40: only eligible items reach the cache and processing stages: for an
\* item excluded by the filter pipeline and for every item of a disabled
\* resource there is no cache lookup, no Parse, no agent invocation, no cache
\* write and no page.
C40_OnlyEligibleItemsProcessed ==
    /\ [][ /\ Did("item") => Eligible(resource, item)
           /\ Did("filtered") =>
                 /\ parser_cache' = parser_cache /\ agent_cache' = agent_cache
                 /\ parsedKeys' = parsedKeys
                 /\ storedKeys' = storedKeys /\ storedAgentKeys' = storedAgentKeys
                 /\ pages' = pages /\ errs' = errs
                 /\ <<iRes', jItem'>> # <<iRes, jItem>>
           /\ (pc = "item" /\ ~Eligible(resource, item)) =>
                 pc' \in {"item", "feed", "idle"} ]_vars
    /\ [](pc \in {"parserCache", "parse", "agents", "agentsDone", "page"} =>
            Eligible(resource, item))
    /\ [](pc \notin {"idle"} =>
            \A k \in 1..Len(conf) :
                ~IsEnabled(conf[k]) => (feeds[k].nil /\ pages[k] = <<>>))

\* the feed loop is over: of the two items of the first resource the short one
\* was filtered out and has no cache row, the long one has its page; the
\* disabled resource has no feed
C40_Witness ==
    /\ pc = "feed" /\ iRes > Len(feeds) /\ Len(feeds) = 3
    /\ Len(feeds[1].Items) = 2
    /\ ~Eligible(conf[1], feeds[1].Items[1])
    /\ Len(pages[1]) = 1 /\ pages[1][1].Link = "u2"
    /\ SelectParserOutput(parser_cache, "u1", "web") = {}
    /\ feeds[2].nil

----------------------------------------------------------------------------
(* Properties of two callers of one cache (SpecConcurrent)                 *)

\* C36: in every reachable state every cache entry satisfies
\* accessed_at >= created_at, also when a Get on a key (clock read, lookup,
\* then the update of accessed_at in a separate statement) interleaves with a
\* Set on the same key from another caller.
C36_AccessedNotBeforeCreated ==
    /\ \A r \in DOMAIN parser_cache : r.accessed_at >= r.created_at
    /\ \A r \in DOMAIN agent_cache : r.accessed_at >= r.created_at

----------------------------------------------------------------------------
(* Properties of further calls on one retryAgent (SpecReuse)               *)

\* the step begins a call of the first caller
CallBegins == rpc \in {"idle", "done"} /\ rpc' \notin {"idle", "done"}

\* the step begins the call of the second caller
OtherCallBegins == other.rpc = "idle" /\ other'.rpc # "idle"

\* C37: the retry wrapper is stateless and reusable: after any earlier call
\* (successful, exhausted, timed out or cancelled) and during any concurrent
\* call on the same wrapper, a call of Process starts at attempt 0 with backoff
\* InitialBackoff, has the full MaxRetries+1 attempts and its own Timeout, and
\* never changes the RetryConfig.
C37_FreshStatePerCall ==
    /\ [][ /\ CallBegins =>
                /\ rpc' = "attempt" /\ attempt' = 0 /\ calls' = 0 /\ sleeps' = 0
                /\ elapsed' = 0 /\ deadline' = rcfg'.Timeout /\ ~cancelled'
                /\ other' = other
           /\ OtherCallBegins =>
                /\ other'.rpc = "attempt" /\ other'.attempt = 0 /\ other'.calls = 0
                /\ other'.sleeps = 0 /\ other'.elapsed = 0
                /\ other'.deadline = rcfg.Timeout
           /\ (other' # other) => retryVars' = retryVars
           /\ (rpc # "idle") => rcfg' = rcfg
           /\ (rpc = "attempt" /\ rpc' = "backoff" /\ attempt = 0
                 /\ extractRetryDelay(lastErr') = 0) =>
                sleepDuration' = rcfg.InitialBackoff
           /\ (other.rpc = "attempt" /\ other'.rpc = "backoff" /\ other.attempt = 0) =>
                other'.sleepDuration = rcfg.InitialBackoff ]_vars
    /\ [](rpc = "exhausted" => calls = rcfg.MaxRetries + 1)
    /\ [](other.rpc = "exhausted" => other.calls = rcfg.MaxRetries + 1)

\* a call made after an exhausted one has used all its attempts while the
\* second caller's call is in its second backoff
C37_Witness ==
    /\ earlier = "max retries exceeded"
    /\ rpc = "exhausted" /\ rcfg.MaxRetries >= 2 /\ calls = rcfg.MaxRetries + 1
    /\ sleeps = rcfg.MaxRetries
    /\ other.rpc = "backoff" /\ other.attempt = 1

----------------------------------------------------------------------------
(* Termination of retryAgent.Process (SpecRetryLive)                       *)

\* C38: every call of Process terminates, provided each underlying call
\* returns: in every execution, those ended by timeout or cancellation
\* included, it makes at most MaxRetries+1 underlying invocations and at most
\* MaxRetries backoff sleeps, and each sleep is over when its timer fires or
\* the overall Timeout is reached, whichever comes first.
C38_ProcessTerminates ==
    /\ (rpc \in {"attempt", "backoff", "exhausted"}) ~> (rpc = "done")
    /\ [](calls <= rcfg.MaxRetries + 1 /\ sleeps <= rcfg.MaxRetries)
    /\ [][ (rpc = "backoff" /\ rpc' # "backoff") =>
              /\ elapsed' <= elapsed + sleepDuration
              /\ elapsed' <= deadline \/ elapsed' = elapsed ]_vars

\* a call that made all its invocations and all its sleeps has returned
C38_Witness ==
    /\ rpc = "done" /\ result.err = "max retries exceeded"
    /\ rcfg.MaxRetries >= 2 /\ calls = rcfg.MaxRetries + 1 /\ sleeps = rcfg.MaxRetries

----------------------------------------------------------------------------
(* Properties of the backoff in the width of a Duration (SpecWide)         *)

\* C39: for every attempt index i in 0..MaxRetries-1 and every config with
\* 0 < InitialBackoff <= MaxBackoff, the backoff sleep d computed without a
\* server-suggested delay satisfies InitialBackoff <= d <= MaxBackoff and is
\* non-decreasing in i, also for large i where InitialBackoff * 2^i exceeds the
\* range of a duration; with a suggested delay the sleep is positive and at
\* most MaxBackoff.
C39_SleepWithinBounds ==
    probe.op = "wideSleepDuration" =>
        IF probe.delay > 0
        THEN 0 < probe.sleep /\ probe.sleep <= probe.config.MaxBackoff
        ELSE /\ probe.config.InitialBackoff <= probe.sleep
             /\ probe.sleep <= probe.config.MaxBackoff
             /\ \A earlierNo \in 0..probe.attemptNo :
                   WideSleepDuration(probe.config, earlierNo, probe.err, probe.parts)
                      <= probe.sleep

====
